---- MODULE Spec2Model ----
(***************************************************************************)
(* Model of the request handlers of waterapps-contact-form                 *)
(* (src/lambda/index.mjs): the reviews API handler (lines 1-939) and the   *)
(* booking API handler (lines 941-1702), the slot engine, the field        *)
(* validators and the review store that the handlers talk to.              *)
(*                                                                         *)
(* An instant (a JavaScript Date) is a record [min, ms]: whole minutes     *)
(* since 1970-01-01T00:00Z and the milliseconds inside that minute         *)
(* (0..59999).  Every Date computation of the source adds whole minutes    *)
(* or compares two instants, so the pair is exact.                         *)
(***************************************************************************)
EXTENDS Integers, Sequences, FiniteSets, TLC

VARIABLES
    env,        \* process environment: which handler is deployed, ALLOWED_ORIGINS,
                \* REVIEWS_TABLE_NAME, whether AWS credentials are present
    store,      \* the reviews table: review_id -> item
    uuids,      \* number of randomUUID() calls so far
    inv,        \* the invocations: their event, position, trace and response
    cfg,        \* booking configuration loaded from the environment (index.mjs:963-976)
    now,        \* the value "new Date()" yields
    slots,      \* the list the last generateCandidateSlots call returned
    genArgs,    \* the arguments of that call
    checked,    \* the slotStart value last given to validateBookingInput
    verdict     \* the slotStart message of that validation ("" when accepted)

slotVars == <<cfg, now, slots, genArgs, checked, verdict>>

handlerVars == <<env, store, uuids, inv>>

vars == <<env, store, uuids, inv, cfg, now, slots, genArgs, checked, verdict>>

(***************************************************************************)
(* Dates                                                                   *)
(***************************************************************************)
MinutesPerDay == 1440

NaNDate == [min |-> 0, ms |-> -1]

IsNaN(t) == t.ms = -1

Instant(minutes, millis) == [min |-> minutes, ms |-> millis]

\* a.getTime() < b.getTime()
Before(a, b) == a.min < b.min \/ (a.min = b.min /\ a.ms < b.ms)

\* new Date(t.getTime() + m * 60 * 1000)
PlusMinutes(t, m) == [t EXCEPT !.min = @ + m]

\* Date.UTC(year, month, day, 0, 0) in days since the epoch (month is 1..12 here)
DaysFromCivil(y, m, d) ==
    LET yy  == IF m <= 2 THEN y - 1 ELSE y
        era == yy \div 400
        yoe == yy - era * 400
        mp  == (m + 9) % 12
        doy == (153 * mp + 2) \div 5 + d - 1
        doe == yoe * 365 + yoe \div 4 - yoe \div 100 + doy
    IN  era * 146097 + doe - 719468

\* getUTCFullYear / getUTCMonth (+1) / getUTCDate of a day number
CivilFromDays(z) ==
    LET zz  == z + 719468
        era == zz \div 146097
        doe == zz - era * 146097
        yoe == (doe - doe \div 1460 + doe \div 36524 - doe \div 146096) \div 365
        doy == doe - (365 * yoe + yoe \div 4 - yoe \div 100)
        mp  == (5 * doy + 2) \div 153
        d   == doy - (153 * mp + 2) \div 5 + 1
        m   == IF mp < 10 THEN mp + 3 ELSE mp - 9
        y   == yoe + era * 400
    IN  [y |-> IF m <= 2 THEN y + 1 ELSE y, m |-> m, d |-> d]

\* Date.UTC(year, month, dayOfMonth, hour, minute, 0, 0); hour and minute may overflow
DateUTC(y, m, d, hour, minute) ==
    Instant(DaysFromCivil(y, m, d) * MinutesPerDay + hour * 60 + minute, 0)

getUTCDay(t) == ((t.min \div MinutesPerDay) + 4) % 7

getUTCHours(t) == (t.min % MinutesPerDay) \div 60

getUTCMinutes(t) == t.min % 60

(***************************************************************************)
(* Timestamp strings.  A string that carries a timestamp is a record of    *)
(* its printed fields and its shape:                                       *)
(*   "msZ"     YYYY-MM-DDTHH:MM:SS.mmmZ   (what toISOString prints)         *)
(*   "secZ"    YYYY-MM-DDTHH:MM:SSZ                                         *)
(*   "minZ"    YYYY-MM-DDTHH:MMZ                                            *)
(*   "offset"  YYYY-MM-DDTHH:MM:SS+00:00                                    *)
(*   "space"   YYYY-MM-DD HH:MM           (no zone designator)              *)
(*   "date"    YYYY-MM-DD                                                   *)
(*   "junkZ"   text that is no timestamp but ends in Z                      *)
(***************************************************************************)
Forms == {"msZ", "secZ", "minZ", "offset", "space", "date", "junkZ"}

\* String.prototype.length of each shape
FormLength(form) ==
    CASE form = "msZ"    -> 24
      [] form = "secZ"   -> 20
      [] form = "minZ"   -> 17
      [] form = "offset" -> 25
      [] form = "space"  -> 16
      [] form = "date"   -> 10
      [] form = "junkZ"  -> 18

\* String.prototype.endsWith("Z")
EndsWithZ(str) == str.form \in {"msZ", "secZ", "minZ", "junkZ"}

\* Date.prototype.toISOString
toISOString(t) ==
    LET c == CivilFromDays(t.min \div MinutesPerDay)
    IN  [form |-> "msZ", y |-> c.y, mo |-> c.m, d |-> c.d,
         h |-> getUTCHours(t), mi |-> getUTCMinutes(t),
         s |-> t.ms \div 1000, ms |-> t.ms % 1000]

\* the characters the shape does not print are absent from the string
Reshape(str, form) ==
    [str EXCEPT !.form = form,
                !.ms = IF form = "msZ" THEN @ ELSE 0,
                !.s  = IF form \in {"msZ", "secZ", "offset"} THEN @ ELSE 0,
                !.h  = IF form = "date" THEN 0 ELSE @,
                !.mi = IF form = "date" THEN 0 ELSE @]

\* date.toISOString().replace(/\.\d{3}Z$/, "Z")
toIsoUtc(t) == Reshape(toISOString(t), "secZ")

\* new Date(str): the process runs in UTC, so a string without a zone
\* designator is read as UTC as well
ParseDate(str) ==
    IF str.form = "junkZ" THEN NaNDate
    ELSE LET base == DateUTC(str.y, str.mo, str.d, str.h, str.mi)
         IN  Instant(base.min, str.s * 1000 + str.ms)

(***************************************************************************)
(* JSON values of a request body.  The payload of a string is a record:    *)
(* a timestamp string (above), a literal [chars |-> <<"a", "b">>], or a    *)
(* long text given by the measurements the validators take of it.          *)
(***************************************************************************)
JStr(payload) == [t |-> "string", s |-> payload]

JNum(n) == [t |-> "number", n |-> n]

JBool(b) == [t |-> "boolean", b |-> b]

JArr(elems) == [t |-> "array", a |-> elems]

\* ownToString: the object has an own property "toString" that is not a function
JObj(ownToString) == [t |-> "object", o |-> ownToString]

JNull == [t |-> "null"]

Undefined == [t |-> "undefined"]

IsString(v) == v.t = "string"

\* String.prototype.length
StrLen(p) ==
    IF "form" \in DOMAIN p THEN FormLength(p.form)
    ELSE IF "chars" \in DOMAIN p THEN Len(p.chars)
    ELSE p.len

(***************************************************************************)
(* Strings.  A literal is [chars |-> <<...>>]; a long text is the record   *)
(* [len, pad, upper, links, run, shape] of what the code measures of it:   *)
(* its length without the surrounding whitespace, the amount of that       *)
(* whitespace, whether it has upper-case letters, its number of            *)
(* http(s):// occurrences, its longest run of one character and what it    *)
(* is the text of ("email", "phone", "plain", or a URL record).            *)
(***************************************************************************)
UpperLetters == <<"A", "B", "C", "D", "E", "F", "G", "H", "I", "J", "K", "L", "M",
                  "N", "O", "P", "Q", "R", "S", "T", "U", "V", "W", "X", "Y", "Z">>

LowerLetters == <<"a", "b", "c", "d", "e", "f", "g", "h", "i", "j", "k", "l", "m",
                  "n", "o", "p", "q", "r", "s", "t", "u", "v", "w", "x", "y", "z">>

DigitChars == <<"0", "1", "2", "3", "4", "5", "6", "7", "8", "9">>

Whitespace == {" ", "\t", "\n"}

Chars(seq) == [chars |-> seq]

EmptyString == Chars(<<>>)

LowerChar(ch) ==
    IF \E i \in 1 .. 26 : UpperLetters[i] = ch
    THEN LowerLetters[CHOOSE i \in 1 .. 26 : UpperLetters[i] = ch]
    ELSE ch

\* String.prototype.toLowerCase
toLowerCase(p) ==
    IF "chars" \in DOMAIN p THEN Chars([i \in 1 .. Len(p.chars) |-> LowerChar(p.chars[i])])
    ELSE IF "upper" \in DOMAIN p THEN [p EXCEPT !.upper = FALSE]
    ELSE p

RECURSIVE TrimStart(_)
TrimStart(seq) ==
    IF seq # <<>> /\ Head(seq) \in Whitespace THEN TrimStart(Tail(seq)) ELSE seq

RECURSIVE TrimEnd(_)
TrimEnd(seq) ==
    IF seq # <<>> /\ seq[Len(seq)] \in Whitespace
    THEN TrimEnd(SubSeq(seq, 1, Len(seq) - 1)) ELSE seq

\* String.prototype.trim
trim(p) ==
    IF "chars" \in DOMAIN p THEN Chars(TrimEnd(TrimStart(p.chars)))
    ELSE IF "pad" \in DOMAIN p THEN [p EXCEPT !.pad = 0]
    ELSE p

\* a JavaScript value used as a condition
Truthy(v) ==
    CASE v.t = "string"  -> StrLen(v.s) > 0
      [] v.t = "number"  -> v.n # 0
      [] v.t = "boolean" -> v.b
      [] v.t \in {"array", "object"} -> TRUE
      [] OTHER -> FALSE

RECURSIVE Digits(_)
\* the decimal digits of a natural number
Digits(n) ==
    IF n < 10 THEN <<DigitChars[n + 1]>>
    ELSE Append(Digits(n \div 10), DigitChars[(n % 10) + 1])

\* String(v) throws a TypeError: the value, or the one element of the array,
\* is an object whose own "toString" is not a function
StringThrows(v) ==
    \/ v.t = "object" /\ v.o
    \/ v.t = "array" /\ Len(v.a) = 1 /\ v.a[1].t = "object" /\ v.a[1].o

\* String(v) for a value on which it does not throw; arrays have at most one
\* element here, and String([x]) is String(x), "" for null and undefined
String(v) ==
    LET scalar(x) ==
            CASE x.t = "string"    -> x.s
              [] x.t = "number"    -> Chars(IF x.n < 0 THEN <<"-">> \o Digits(0 - x.n)
                                                       ELSE Digits(x.n))
              [] x.t = "boolean"   -> Chars(IF x.b THEN <<"t", "r", "u", "e">>
                                                 ELSE <<"f", "a", "l", "s", "e">>)
              [] x.t = "null"      -> Chars(<<"n", "u", "l", "l">>)
              [] x.t = "undefined" -> Chars(<<"u", "n", "d", "e", "f", "i", "n", "e", "d">>)
              [] x.t = "object"    -> Chars(<<"[", "o", "b", "j", "e", "c", "t", " ",
                                              "O", "b", "j", "e", "c", "t", "]">>)
    IN  IF v.t = "array"
        THEN IF Len(v.a) = 0 \/ v.a[1].t \in {"null", "undefined"} THEN EmptyString
             ELSE scalar(v.a[1])
        ELSE scalar(v)

\* cleanText: typeof value === "string" ? value.trim() : value
cleanText(v) == IF IsString(v) THEN JStr(trim(v.s)) ELSE v

\* typeof x === "string" ? x.trim() : x ?? ""
TrimOrDefault(v) ==
    IF IsString(v) THEN JStr(trim(v.s))
    ELSE IF v.t \in {"null", "undefined"} THEN JStr(EmptyString)
    ELSE v

\* typeof x === "string" ? x.trim().toLowerCase() : x
TrimLower(v) == IF IsString(v) THEN JStr(toLowerCase(trim(v.s))) ELSE v

(***************************************************************************)
(* Field validators                                                        *)
(***************************************************************************)
\* a field-error map: the fields that have a message, with their message
ErrorMap(msgs) == [f \in {g \in DOMAIN msgs : msgs[g] # ""} |-> msgs[f]]

\* EMAIL_RE.test(p); the literals and timestamps of this model hold no "@"
EmailRe(p) == "shape" \in DOMAIN p /\ p.shape.k = "email"

\* PHONE_RE.test(p): 6 to 30 characters of the phone alphabet
PhoneRe(p) == "shape" \in DOMAIN p /\ p.shape.k = "phone" /\ p.len >= 6 /\ p.len <= 30

\* input.message.match(/https?:\/\//g)?.length || 0
UrlCount(p) == IF "links" \in DOMAIN p THEN p.links ELSE 0

\* /(.)\1{14,}/.test(p): some character 15 or more times in a row
SpamRun(p) == "run" \in DOMAIN p /\ p.run >= 15

NameError(v) ==
    IF ~IsString(v) \/ StrLen(v.s) < 2 THEN "Name is required (min 2 characters)."
    ELSE IF StrLen(v.s) > 120 THEN "Name must be 120 characters or less."
    ELSE ""

EmailError(v) ==
    IF ~IsString(v) \/ ~EmailRe(v.s) THEN "Valid email is required."
    ELSE IF StrLen(v.s) > 254 THEN "Email must be 254 characters or less."
    ELSE ""

\* company and role of the contact and review forms: the length is looked at
\* only when the string is not empty
OptionalTextError(v, label) ==
    IF ~IsString(v) THEN IF label = "Company" THEN "Company must be text." ELSE "Role must be text."
    ELSE IF Truthy(v) /\ StrLen(v.s) > 120
    THEN IF label = "Company" THEN "Company must be 120 characters or less."
         ELSE "Role must be 120 characters or less."
    ELSE ""

PhoneError(v) ==
    IF ~IsString(v) THEN "Phone must be text."
    ELSE IF Truthy(v) /\ ~PhoneRe(v.s) THEN "Phone format looks invalid."
    ELSE ""

MessageError(v) ==
    LET first == IF ~IsString(v) \/ StrLen(v.s) < 10
                 THEN "Message is required (min 10 characters)."
                 ELSE IF StrLen(v.s) > 4000 THEN "Message must be 4000 characters or less."
                 ELSE ""
    IN  IF ~IsString(v) \/ first # "" THEN first
        ELSE IF UrlCount(v.s) > 3 THEN "Message contains too many links."
        ELSE IF SpamRun(v.s) THEN "Message looks like spam."
        ELSE ""

normaliseContactInput(body) ==
    [name    |-> cleanText(body.name),
     email   |-> TrimLower(body.email),
     company |-> TrimOrDefault(body.company),
     phone   |-> TrimOrDefault(body.phone),
     message |-> cleanText(body.message)]

validateContact(input) ==
    ErrorMap([name    |-> NameError(input.name),
              email   |-> EmailError(input.email),
              company |-> OptionalTextError(input.company, "Company"),
              phone   |-> PhoneError(input.phone),
              message |-> MessageError(input.message)])

\* parsed.hostname.toLowerCase().replace(/^www\./, "") on a list of labels
StripWww(host) == IF Len(host) > 1 /\ host[1] = "www" THEN Tail(host) ELSE host

isValidLinkedInUrl(v) ==
    /\ IsString(v) /\ StrLen(v.s) > 0
    /\ "shape" \in DOMAIN v.s /\ v.s.shape.k = "url"
    /\ v.s.shape.protocol = "https:"
    /\ LET host == StripWww(v.s.shape.host)
           n    == Len(host)
       IN  \/ host = <<"linkedin", "com">>
           \/ n >= 3 /\ host[n - 1] = "linkedin" /\ host[n] = "com"
    /\ v.s.shape.path # "/"

\* the rating the review form is left with; String() may throw
RatingThrows(body) ==
    /\ ~(body.rating.t \in {"null", "undefined"})
    /\ ~(IsString(body.rating) /\ StrLen(body.rating.s) = 0)
    /\ StringThrows(body.rating)

normaliseReviewInput(body) ==
    [name     |-> cleanText(body.name),
     email    |-> TrimLower(body.email),
     role     |-> TrimOrDefault(body.role),
     company  |-> TrimOrDefault(body.company),
     linkedin |-> cleanText(body.linkedin),
     review   |-> cleanText(body.review),
     rating   |-> IF \/ body.rating.t \in {"null", "undefined"}
                     \/ IsString(body.rating) /\ StrLen(body.rating.s) = 0
                  THEN JStr(EmptyString)
                  ELSE JStr(trim(String(body.rating))),
     consent  |-> body.consent]

\* /^[1-5]$/.test(p)
RatingRe(p) ==
    "chars" \in DOMAIN p /\ Len(p.chars) = 1 /\ p.chars[1] \in {"1", "2", "3", "4", "5"}

validateReview(input) ==
    ErrorMap([name     |-> NameError(input.name),
              email    |-> EmailError(input.email),
              role     |-> OptionalTextError(input.role, "Role"),
              company  |-> OptionalTextError(input.company, "Company"),
              linkedin |-> IF ~isValidLinkedInUrl(input.linkedin)
                           THEN "Please provide a valid HTTPS LinkedIn profile URL."
                           ELSE IF StrLen(input.linkedin.s) > 500
                           THEN "LinkedIn URL must be 500 characters or less."
                           ELSE "",
              review   |-> IF ~IsString(input.review) \/ StrLen(input.review.s) < 30
                           THEN "Review is required (min 30 characters)."
                           ELSE IF StrLen(input.review.s) > 2500
                           THEN "Review must be 2500 characters or less."
                           ELSE "",
              rating   |-> IF StrLen(input.rating.s) = 0 \/ RatingRe(input.rating.s)
                           THEN "" ELSE "Rating must be between 1 and 5.",
              consent  |-> IF \/ input.consent.t = "boolean" /\ input.consent.b
                              \/ /\ IsString(input.consent)
                                 /\ "chars" \in DOMAIN input.consent.s
                                 /\ input.consent.s.chars = <<"y", "e", "s">>
                           THEN "" ELSE "Consent is required to submit a review."])

(***************************************************************************)
(* Slot engine                                                             *)
(***************************************************************************)
RECURSIVE MinuteLoop_DropsBoundary(_, _, _, _, _)
\* an inner loop that also skips the tick at now + minLeadMinutes
MinuteLoop_DropsBoundary(civ, minutes, nowT, c, acc) ==
    IF minutes + c.slotDuration <= c.endHour * 60
    THEN LET hour      == minutes \div 60
             minute    == minutes % 60
             startTime == DateUTC(civ.y, civ.m, civ.d, hour, minute)
             endTime   == PlusMinutes(startTime, c.slotDuration)
             slot      == [slotStart |-> toIsoUtc(startTime), slotEnd |-> toIsoUtc(endTime)]
         IN  MinuteLoop_DropsBoundary(civ, minutes + c.slotDuration, nowT, c,
                        IF ~Before(PlusMinutes(nowT, c.minLead), startTime)
                        THEN acc ELSE Append(acc, slot))
    ELSE acc

RECURSIVE MinuteLoop(_, _, _, _, _)
\* the inner loop of generateCandidateSlots for one day
MinuteLoop(civ, minutes, nowT, c, acc) ==
    IF minutes + c.slotDuration <= c.endHour * 60
    THEN LET hour      == minutes \div 60
             minute    == minutes % 60
             startTime == DateUTC(civ.y, civ.m, civ.d, hour, minute)
             endTime   == PlusMinutes(startTime, c.slotDuration)
             slot      == [slotStart |-> toIsoUtc(startTime), slotEnd |-> toIsoUtc(endTime)]
         IN  MinuteLoop(civ, minutes + c.slotDuration, nowT, c,
                        IF Before(startTime, PlusMinutes(nowT, c.minLead))
                        THEN acc ELSE Append(acc, slot))
    ELSE acc

RECURSIVE DayLoop(_, _, _, _, _, _)
\* the outer loop of generateCandidateSlots; the slots of a day are pushed
\* onto the one list in the order the inner loop visits them
DayLoop(startDateUtc, offset, days, nowT, c, acc) ==
    IF offset < days
    THEN LET day == PlusMinutes(startDateUtc, offset * MinutesPerDay)
         IN  DayLoop(startDateUtc, offset + 1, days, nowT, c,
                     IF getUTCDay(day) \notin c.workdays
                     THEN acc
                     ELSE acc \o MinuteLoop(CivilFromDays(day.min \div MinutesPerDay),
                                            c.startHour * 60, nowT, c, <<>>))
    ELSE acc

generateCandidateSlots(startDateUtc, days, nowT, c) ==
    DayLoop(startDateUtc, 0, days, nowT, c, <<>>)

\* the slotStart part of validateBookingInput: the message it leaves in
\* fieldErrors.slotStart, "" when it leaves none
SlotStartError(v, nowT, c) ==
    IF ~IsString(v) \/ StrLen(v.s) < 16 THEN "A slot is required."
    ELSE IF "form" \notin DOMAIN v.s THEN "Slot must be a valid UTC ISO timestamp."
    ELSE LET slotDate == ParseDate(v.s) IN
      IF IsNaN(slotDate) \/ ~EndsWithZ(v.s) THEN "Slot must be a valid UTC ISO timestamp."
      ELSE LET startMinutes == getUTCHours(slotDate) * 60 + getUTCMinutes(slotDate)
               endMinutes   == startMinutes + c.slotDuration
           IN  IF \/ startMinutes < c.startHour * 60
                  \/ endMinutes > c.endHour * 60
                  \/ startMinutes % c.slotDuration # 0
               THEN "Selected slot is outside configured booking hours."
               ELSE IF getUTCDay(slotDate) \notin c.workdays
               THEN "Selected slot is outside available booking days."
               ELSE IF Before(slotDate, PlusMinutes(nowT, c.minLead))
               THEN "Selected slot is no longer available."
               ELSE IF Before(PlusMinutes(nowT, c.lookaheadDays * MinutesPerDay), slotDate)
               THEN "Selected slot is outside the booking window."
               ELSE ""

normaliseBookingInput(body) ==
    [name      |-> cleanText(body.name),
     email     |-> TrimLower(body.email),
     company   |-> TrimOrDefault(body.company),
     notes     |-> TrimOrDefault(body.notes),
     timezone  |-> TrimOrDefault(body.timezone),
     slotStart |-> cleanText(body.slotStart)]

validateBookingInput(input, nowT, c) ==
    ErrorMap([name      |-> NameError(input.name),
              email     |-> EmailError(input.email),
              company   |-> IF ~IsString(input.company) THEN "Company must be text."
                            ELSE IF StrLen(input.company.s) > 120
                            THEN "Company must be 120 characters or less."
                            ELSE "",
              notes     |-> IF ~IsString(input.notes) THEN "Notes must be text."
                            ELSE IF StrLen(input.notes.s) > 1500
                            THEN "Notes must be 1500 characters or less."
                            ELSE "",
              slotStart |-> SlotStartError(input.slotStart, nowT, c)])

\* DATE_ONLY_UTC_RE.test(dateStr) holds of the "date" shape only
parseDateOnlyUtc(str) ==
    IF "form" \notin DOMAIN str \/ str.form # "date" THEN NaNDate
    ELSE LET date == DateUTC(str.y, str.mo, str.d, 0, 0)
             civ  == CivilFromDays(date.min \div MinutesPerDay)
         IN  IF civ.y # str.y \/ civ.m # str.mo \/ civ.d # str.d
             THEN NaNDate ELSE date

\* the days the handler passes on: Number(query.days || "7"), clamped to 1..21
ClampDays(daysParam) ==
    IF daysParam.k # "num" THEN 7
    ELSE IF daysParam.n < 1 THEN 1
    ELSE IF daysParam.n > 21 THEN 21
    ELSE daysParam.n

\* Date.UTC(now.getUTCFullYear(), now.getUTCMonth(), now.getUTCDate(), 0, 0, 0, 0)
UtcMidnight(t) ==
    LET civ == CivilFromDays(t.min \div MinutesPerDay)
    IN  DateUTC(civ.y, civ.m, civ.d, 0, 0)

\* the start date handleAvailability derives from the query (NaNDate: invalid_date)
AvailabilityStart(dateParam, nowT) ==
    IF dateParam.k = "absent" THEN UtcMidnight(nowT)
    ELSE parseDateOnlyUtc(dateParam.s)

(***************************************************************************)
(* Inputs of the slot-engine specification                                 *)
(***************************************************************************)
\* 2026-03-05, a Thursday, in days since the epoch
BaseDay == DaysFromCivil(2026, 3, 5)

MaxStartOffsetDays == 2

SlotConfigs ==
    { c \in [slotDuration : {30, 45}, lookaheadDays : {14}, minLead : {0, 120},
              startHour : {0, 1}, endHour : {8, 24},
              workdays : {{1, 2, 3, 4, 5}, {0, 1, 2, 3, 4, 5, 6}}] :
        c.startHour < c.endHour }

NowSet ==
    { Instant(BaseDay * MinutesPerDay, 0),
      Instant(BaseDay * MinutesPerDay + 90, 30500) }

DaysParams ==
    { [k |-> "absent", n |-> 0], [k |-> "nan", n |-> 0] }
      \cup { [k |-> "num", n |-> n] : n \in {0, 2, 15, 22} }

DateParams ==
    { [k |-> "absent"],
      [k |-> "given", s |-> [chars |-> <<"t", "o", "d", "a", "y">>]],
      [k |-> "given", s |-> [form |-> "date", y |-> 2026, mo |-> 2, d |-> 30,
                             h |-> 0, mi |-> 0, s |-> 0, ms |-> 0]] }
      \cup { [k |-> "given",
              s |-> Reshape(toISOString(Instant((BaseDay + o) * MinutesPerDay, 0)), "date")] :
              o \in -1 .. MaxStartOffsetDays }

\* instants a client may put into slotStart: on and off the slot grid
ProbeInstants ==
    { Instant((BaseDay + o) * MinutesPerDay + m, ms) :
        o \in {0, 2, 14, 15}, m \in {0, 60, 90, 105, 210, 450, 1410},
        ms \in {0, 500, 30000} }

SlotStartValues ==
    { JStr(Reshape(toISOString(t), f)) : t \in ProbeInstants, f \in Forms \ {"junkZ", "date"} }
      \cup { JStr([form |-> "junkZ", y |-> 0, mo |-> 0, d |-> 0, h |-> 0, mi |-> 0,
                   s |-> 0, ms |-> 0]),
             JStr(Reshape(toISOString(Instant(BaseDay * MinutesPerDay, 0)), "date")),
             JStr([chars |-> <<>>]), JNum(20260305), JBool(TRUE), JNull, Undefined,
             JArr(<<>>), JObj(FALSE) }

NoCall == [kind |-> "none"]

SlotInit ==
    /\ cfg \in SlotConfigs
    /\ now \in NowSet
    /\ slots = <<>>
    /\ genArgs = NoCall
    /\ checked = Undefined
    /\ verdict = "unset"
    /\ env = [handler |-> "booking", allowedOrigins |-> <<>>, table |-> "", creds |-> TRUE]
    /\ store = <<>>
    /\ uuids = 0
    /\ inv = <<>>

\* GET /availability: handleAvailability up to the generated list
Availability(daysParam, dateParam) ==
    LET startDateUtc == AvailabilityStart(dateParam, now)
        days         == ClampDays(daysParam)
    IN  /\ genArgs = NoCall /\ verdict = "unset"
        /\ genArgs' = IF IsNaN(startDateUtc)
                      THEN [kind |-> "invalid_date"]
                      ELSE [kind |-> "generated", startDateUtc |-> startDateUtc, days |-> days]
        /\ slots' = IF IsNaN(startDateUtc) THEN <<>>
                    ELSE generateCandidateSlots(startDateUtc, days, now, cfg)
        /\ checked' = Undefined
        /\ verdict' = "unset"
        /\ UNCHANGED <<cfg, now>>
        /\ UNCHANGED handlerVars

\* POST /booking: the slotStart checks of validateBookingInput on a client value
ValidateSlot(v) ==
    /\ genArgs = NoCall /\ verdict = "unset"
    /\ checked' = v
    /\ verdict' = SlotStartError(v, now, cfg)
    /\ slots' = <<>>
    /\ genArgs' = NoCall
    /\ UNCHANGED <<cfg, now>>
    /\ UNCHANGED handlerVars

\* the response is returned; the invocation keeps nothing
SlotReturn ==
    /\ genArgs # NoCall \/ verdict # "unset"
    /\ slots' = <<>>
    /\ genArgs' = NoCall
    /\ checked' = Undefined
    /\ verdict' = "unset"
    /\ UNCHANGED <<cfg, now>>
    /\ UNCHANGED handlerVars

SlotNext ==
    \/ \E dp \in DaysParams, tp \in DateParams : Availability(dp, tp)
    \/ \E v \in SlotStartValues : ValidateSlot(v)
    \/ SlotReturn

SlotSpec == SlotInit /\ [][SlotNext]_vars

\* C1: every slot generateCandidateSlots emits passes the slotStart checks of
\* validateBookingInput under the same now and configuration.
C1_GeneratedSlotsValidate ==
    \A i \in 1 .. Len(slots) : SlotStartError(JStr(slots[i].slotStart), now, cfg) = ""

\* C2: every slotStart that validateBookingInput accepts is the start of a slot
\* that generateCandidateSlots emits for the same now and configuration.
C2_AcceptedIsGenerated ==
    (verdict = "" /\ IsString(checked)) =>
        LET t   == ParseDate(checked.s)
            gen == generateCandidateSlots(UtcMidnight(t), 1, now, cfg)
        IN  \E i \in 1 .. Len(gen) : ParseDate(gen[i].slotStart) = t

(***************************************************************************)
(* Handlers.  An invocation runs from its event to its first awaited call  *)
(* (a store request or an email send) in one step, and from the outcome of *)
(* an awaited call to the next one or to the response in one step.         *)
(***************************************************************************)
MAX_BODY_BYTES == 16384

DefaultOrigin == "https://www.waterapps.com.au"

NoErrors == ErrorMap([name |-> ""])

NoOp == [kind |-> "none"]

NoResponse == [statusCode |-> 0]

\* a guard that takes any non-empty origin
isAllowedOrigin_AnyOrigin(origin) == origin # ""

isAllowedOrigin(origin) ==
    origin # "" /\ \E i \in 1 .. Len(env.allowedOrigins) : env.allowedOrigins[i] = origin

\* headers that echo whatever origin the request names
corsHeaders_EchoesAny(origin) ==
    [allowOrigin |-> IF origin # "" THEN origin
                     ELSE IF Len(env.allowedOrigins) > 0 THEN env.allowedOrigins[1]
                     ELSE DefaultOrigin]

corsHeaders(origin) ==
    [allowOrigin |-> IF isAllowedOrigin(origin) THEN origin
                     ELSE IF Len(env.allowedOrigins) > 0 THEN env.allowedOrigins[1]
                     ELSE DefaultOrigin]

jsonResponse(statusCode, origin, payload) ==
    [statusCode |-> statusCode, headers |-> corsHeaders(origin), body |-> payload]

ErrorBody(code, message, requestId) ==
    [status |-> "error", code |-> code, message |-> message, requestId |-> requestId]

\* a response that reports the first failing field only
ValidationFailed_FirstErrorOnly(origin, message, fieldErrors, requestId) ==
    jsonResponse(400, origin,
        [status |-> "error", code |-> "validation_failed", message |-> message,
         fieldErrors |-> [f \in {CHOOSE g \in DOMAIN fieldErrors : TRUE} |-> fieldErrors[f]],
         requestId |-> requestId])

\* the 400 validation_failed response of the three form handlers
ValidationFailed(origin, message, fieldErrors, requestId) ==
    jsonResponse(400, origin,
        [status |-> "error", code |-> "validation_failed", message |-> message,
         fieldErrors |-> fieldErrors, requestId |-> requestId])

\* the result of a step: the response is returned ...
Respond(resp, trace, fieldErrors) ==
    [pc |-> "done", resp |-> resp, trace |-> Append(trace, "responded"),
     fieldErrors |-> fieldErrors, op |-> NoOp, newUuids |-> 0]

\* ... or the promise of the handler is rejected ...
Reject(trace, fieldErrors) ==
    [pc |-> "rejected", resp |-> NoResponse, trace |-> Append(trace, "rejected"),
     fieldErrors |-> fieldErrors, op |-> NoOp, newUuids |-> 0]

\* ... or the handler awaits a call it has just made
Await(pc, op, trace, fieldErrors, newUuids) ==
    [pc |-> pc, resp |-> NoResponse, trace |-> trace,
     fieldErrors |-> fieldErrors, op |-> op, newUuids |-> newUuids]

\* a catch block that rethrows
InternalError_Rethrows(event, trace, fieldErrors) == Reject(trace, fieldErrors)

\* the catch block of the reviews handler
InternalError(event, trace, fieldErrors) ==
    Respond(jsonResponse(500, event.origin,
                ErrorBody("internal_error",
                          "Something went wrong. Please email hello@waterapps.com.au directly.",
                          event.requestId)),
            trace, fieldErrors)

\* the byte length of a base64 text once decoded (no padding here)
Base64Decoded(length) == 3 * (length \div 4)

\* Buffer.byteLength(bodyText, "utf8"); bodyText is event.body, decoded when
\* the event flags it as base64
BodyBytes(body) == IF body.isBase64Encoded THEN Base64Decoded(body.bytes) ELSE body.bytes

\* a parser that looks at the syntax before it looks at the size
parseJsonBody_SyntaxFirst(event) ==
    IF event.body.kind = "invalid"
    THEN [ok |-> FALSE,
          response |-> jsonResponse(400, event.origin,
              ErrorBody("invalid_json", "Request body must be valid JSON.", event.requestId))]
    ELSE IF BodyBytes(event.body) > MAX_BODY_BYTES
    THEN [ok |-> FALSE,
          response |-> jsonResponse(413, event.origin,
              ErrorBody("payload_too_large", "Request body is too large.", event.requestId))]
    ELSE IF event.body.kind # "object"
    THEN [ok |-> FALSE,
          response |-> jsonResponse(400, event.origin,
              ErrorBody("invalid_payload", "Request body must be a JSON object.",
                        event.requestId))]
    ELSE [ok |-> TRUE, parsed |-> event.body.fields]

parseJsonBody(event) ==
    IF BodyBytes(event.body) > MAX_BODY_BYTES
    THEN [ok |-> FALSE,
          response |-> jsonResponse(413, event.origin,
              ErrorBody("payload_too_large", "Request body is too large.", event.requestId))]
    ELSE IF event.body.kind = "invalid"
    THEN [ok |-> FALSE,
          response |-> jsonResponse(400, event.origin,
              ErrorBody("invalid_json", "Request body must be valid JSON.", event.requestId))]
    ELSE IF event.body.kind # "object"
    THEN [ok |-> FALSE,
          response |-> jsonResponse(400, event.origin,
              ErrorBody("invalid_payload", "Request body must be a JSON object.",
                        event.requestId))]
    ELSE [ok |-> TRUE, parsed |-> event.body.fields]

\* a handler that sends the notification before it writes to the store
StoreCall_NotifyFirst(event, op, trace, fieldErrors, newUuids) ==
    Await("email", [kind |-> "email", what |-> "review", reviewId |-> uuids + 1],
          Append(trace, "email_attempt"), fieldErrors, newUuids)

\* dynamoRequest up to its fetch: without credentials it throws before any
\* request is sent, which the reviews handler turns into a 500
StoreCall(event, op, trace, fieldErrors, newUuids) ==
    IF ~env.creds THEN InternalError(event, Append(trace, "signing_failed"), fieldErrors)
    ELSE Await("store", op, Append(trace, "store_request"), fieldErrors, newUuids)

NotConfigured(event, trace) ==
    Respond(jsonResponse(503, event.origin,
                ErrorBody("reviews_not_configured", "Reviews service is not configured yet.",
                          event.requestId)),
            trace, NoErrors)

\* handleContact of the reviews handler, up to the email send
ReviewsContact(event, trace) ==
    LET parsedBody == parseJsonBody(event) IN
    IF ~parsedBody.ok THEN Respond(parsedBody.response, trace, NoErrors)
    ELSE LET input       == normaliseContactInput(parsedBody.parsed)
             fieldErrors == validateContact(input)
             t2          == Append(trace, "body_parsed")
         IN  IF DOMAIN fieldErrors # {}
             THEN Respond(ValidationFailed(event.origin,
                              "Please correct the highlighted fields and try again.",
                              fieldErrors, event.requestId),
                          Append(t2, "validation_failed"), fieldErrors)
             ELSE Await("email", [kind |-> "email", what |-> "contact"],
                        t2 \o <<"validation_passed", "email_attempt">>, fieldErrors, 0)

\* value || ""
OrEmpty(v) == IF Truthy(v) THEN v ELSE JStr(EmptyString)

\* Math.max(REVIEW_RETENTION_DAYS, 30) days, in minutes
RetentionMinutes == 365 * MinutesPerDay

\* handleReviewSubmit up to the PutItem request
handleReviewSubmit(event, trace) ==
    IF env.table = "" THEN NotConfigured(event, trace)
    ELSE LET parsedBody == parseJsonBody(event) IN
    IF ~parsedBody.ok THEN Respond(parsedBody.response, trace, NoErrors)
    ELSE LET t2 == Append(trace, "body_parsed") IN
    IF RatingThrows(parsedBody.parsed)
    THEN InternalError(event, Append(t2, "threw"), NoErrors)
    ELSE LET input       == normaliseReviewInput(parsedBody.parsed)
             fieldErrors == validateReview(input)
             createdAt   == toISOString(now)
             reviewId    == uuids + 1
             item        == [review_id  |-> reviewId,
                             status     |-> "pending",
                             created_at |-> createdAt,
                             updated_at |-> createdAt,
                             name       |-> input.name,
                             email      |-> input.email,
                             role       |-> OrEmpty(input.role),
                             company    |-> OrEmpty(input.company),
                             linkedin   |-> input.linkedin,
                             review     |-> input.review,
                             rating     |-> OrEmpty(input.rating),
                             consent    |-> TRUE,
                             source_ip  |-> event.sourceIp,
                             user_agent |-> event.userAgent,
                             origin     |-> event.origin,
                             request_id |-> event.requestId,
                             expires_at |-> PlusMinutes(now, RetentionMinutes).min]
         IN  IF DOMAIN fieldErrors # {}
             THEN Respond(ValidationFailed(event.origin,
                              "Please correct the highlighted fields and try again.",
                              fieldErrors, event.requestId),
                          Append(t2, "validation_failed"), fieldErrors)
             ELSE StoreCall(event, [kind |-> "PutItem", item |-> item],
                            Append(t2, "validation_passed"), fieldErrors, 1)

\* the word a literal spells, "other" when it is none of the words the code
\* compares with
WordOf(p) ==
    IF "chars" \notin DOMAIN p THEN "other"
    ELSE IF p.chars = <<"a", "p", "p", "r", "o", "v", "e", "d">> THEN "approved"
    ELSE IF p.chars = <<"r", "e", "j", "e", "c", "t", "e", "d">> THEN "rejected"
    ELSE IF p.chars = <<"p", "e", "n", "d", "i", "n", "g">> THEN "pending"
    ELSE "other"

VALID_REVIEW_STATUSES == {"pending", "approved", "rejected"}

\* Number(param || fallback), clamped; a parameter is absent, not a number, or n
ClampParam(param, fallback, lo, hi) ==
    IF param.k # "num" THEN fallback
    ELSE IF param.n < lo THEN lo
    ELSE IF param.n > hi THEN hi
    ELSE param.n

\* handleReviewList up to the Query request
handleReviewList(event, trace) ==
    IF env.table = "" THEN NotConfigured(event, trace)
    ELSE LET statusFilter == IF StrLen(event.query.status) = 0 THEN "pending"
                             ELSE WordOf(toLowerCase(event.query.status))
             limit        == ClampParam(event.query.limit, 25, 1, 100)
         IN  IF statusFilter \notin VALID_REVIEW_STATUSES
             THEN Respond(jsonResponse(400, event.origin,
                              ErrorBody("invalid_status",
                                        "status must be one of pending, approved, rejected.",
                                        event.requestId)),
                          trace, NoErrors)
             ELSE StoreCall(event, [kind |-> "Query", status |-> statusFilter, limit |-> limit],
                            trace, NoErrors, 0)

\* String(parsedBody.parsed.decision || "") throws
DecisionThrows(parsed) == Truthy(parsed.decision) /\ StringThrows(parsed.decision)

\* String(parsedBody.parsed.decision || "").toLowerCase().trim()
ModerationDecision(parsed) ==
    IF Truthy(parsed.decision) THEN trim(toLowerCase(String(parsed.decision)))
    ELSE EmptyString

\* cleanText(parsedBody.parsed.note) || ""
ModerationNote(parsed) ==
    LET cleaned == cleanText(parsed.note)
    IN  IF Truthy(cleaned) THEN cleaned ELSE JStr(EmptyString)

\* an identity that prefers the subject claim
ModeratedBy_SubjectFirst(claims) ==
    IF claims.sub # "" THEN claims.sub
    ELSE IF claims.email # "" THEN claims.email
    ELSE IF claims.username # "" THEN claims.username
    ELSE "admin"

\* String(claims.email || claims["cognito:username"] || claims.sub || "admin")
ModeratedBy(claims) ==
    IF claims.email # "" THEN claims.email
    ELSE IF claims.username # "" THEN claims.username
    ELSE IF claims.sub # "" THEN claims.sub
    ELSE "admin"

\* a moderation that takes every valid review status as a decision
handleReviewModeration_AnyStatus(event, trace) ==
    IF env.table = "" THEN NotConfigured(event, trace)
    ELSE IF event.reviewId = 0
    THEN Respond(jsonResponse(400, event.origin,
                     ErrorBody("invalid_review_id", "reviewId path parameter is required.",
                               event.requestId)),
                 trace, NoErrors)
    ELSE LET parsedBody == parseJsonBody(event) IN
    IF ~parsedBody.ok THEN Respond(parsedBody.response, trace, NoErrors)
    ELSE LET t2 == Append(trace, "body_parsed") IN
    IF DecisionThrows(parsedBody.parsed)
    THEN InternalError(event, Append(t2, "threw"), NoErrors)
    ELSE LET decision       == WordOf(ModerationDecision(parsedBody.parsed))
             moderationNote == ModerationNote(parsedBody.parsed)
         IN  IF decision \notin VALID_REVIEW_STATUSES
             THEN Respond(jsonResponse(400, event.origin,
                              ErrorBody("invalid_decision",
                                        "decision must be either approved or rejected.",
                                        event.requestId)),
                          t2, NoErrors)
             ELSE IF ~IsString(moderationNote)
             THEN Respond(jsonResponse(400, event.origin,
                              ErrorBody("invalid_note", "note must be text if provided.",
                                        event.requestId)),
                          t2, NoErrors)
             ELSE StoreCall(event,
                            [kind           |-> "UpdateItem",
                             reviewId       |-> event.reviewId,
                             decision       |-> decision,
                             moderatedBy    |-> ModeratedBy(event.claims),
                             moderationNote |-> moderationNote,
                             updatedAt      |-> toISOString(now)],
                            Append(t2, "moderation_accepted"), NoErrors, 0)

\* handleReviewModeration up to the UpdateItem request; reviewId 0 is an absent
\* path parameter
handleReviewModeration(event, trace) ==
    IF env.table = "" THEN NotConfigured(event, trace)
    ELSE IF event.reviewId = 0
    THEN Respond(jsonResponse(400, event.origin,
                     ErrorBody("invalid_review_id", "reviewId path parameter is required.",
                               event.requestId)),
                 trace, NoErrors)
    ELSE LET parsedBody == parseJsonBody(event) IN
    IF ~parsedBody.ok THEN Respond(parsedBody.response, trace, NoErrors)
    ELSE LET t2 == Append(trace, "body_parsed") IN
    IF DecisionThrows(parsedBody.parsed)
    THEN InternalError(event, Append(t2, "threw"), NoErrors)
    ELSE LET decision       == WordOf(ModerationDecision(parsedBody.parsed))
             moderationNote == ModerationNote(parsedBody.parsed)
         IN  IF ~(decision = "approved" \/ decision = "rejected")
             THEN Respond(jsonResponse(400, event.origin,
                              ErrorBody("invalid_decision",
                                        "decision must be either approved or rejected.",
                                        event.requestId)),
                          t2, NoErrors)
             ELSE IF ~IsString(moderationNote)
             THEN Respond(jsonResponse(400, event.origin,
                              ErrorBody("invalid_note", "note must be text if provided.",
                                        event.requestId)),
                          t2, NoErrors)
             ELSE StoreCall(event,
                            [kind           |-> "UpdateItem",
                             reviewId       |-> event.reviewId,
                             decision       |-> decision,
                             moderatedBy    |-> ModeratedBy(event.claims),
                             moderationNote |-> moderationNote,
                             updatedAt      |-> toISOString(now)],
                            Append(t2, "moderation_accepted"), NoErrors, 0)

\* the reviews handler (index.mjs:856-939) from the event to its first await
ReviewsHandler(event) ==
    IF event.method = "OPTIONS"
    THEN Respond([statusCode |-> 204, headers |-> corsHeaders(event.origin)], <<>>, NoErrors)
    ELSE IF event.method = "GET" /\ event.path = "/health"
    THEN Respond(jsonResponse(200, event.origin,
                     [status |-> "ok", service |-> "waterapps-contact-form",
                      requestId |-> event.requestId, timestamp |-> toISOString(now)]),
                 <<>>, NoErrors)
    ELSE IF event.origin = ""
    THEN Respond(jsonResponse(403, event.origin,
                     ErrorBody("origin_required", "Origin header is required.",
                               event.requestId)),
                 <<>>, NoErrors)
    ELSE IF ~isAllowedOrigin(event.origin)
    THEN Respond(jsonResponse(403, event.origin,
                     ErrorBody("origin_not_allowed", "Origin not allowed.", event.requestId)),
                 <<>>, NoErrors)
    ELSE LET trace == <<"origin_accepted">> IN
         IF event.method = "POST" /\ event.path = "/contact"
         THEN ReviewsContact(event, trace)
         ELSE IF event.method = "POST" /\ event.path = "/reviews"
         THEN handleReviewSubmit(event, trace)
         ELSE IF event.method = "GET" /\ event.path = "/reviews"
         THEN handleReviewList(event, trace)
         ELSE IF event.method = "POST" /\ event.path = "/reviews/{reviewId}/moderate"
         THEN handleReviewModeration(event, trace)
         ELSE Respond(jsonResponse(404, event.origin,
                          ErrorBody("route_not_found", "Route not found.", event.requestId)),
                      trace, NoErrors)

\* a guard that has one answer for every origin it turns away
withOriginGuard_OneCode(event) ==
    IF ~isAllowedOrigin(event.origin)
    THEN [pass |-> FALSE,
          response |-> jsonResponse(403, event.origin,
              ErrorBody("origin_not_allowed", "Origin not allowed.", event.requestId))]
    ELSE [pass |-> TRUE]

\* withOriginGuard: the 403 response, or null (pass) for an allowed origin
withOriginGuard(event) ==
    IF event.origin = ""
    THEN [pass |-> FALSE,
          response |-> jsonResponse(403, event.origin,
              ErrorBody("origin_required", "Origin header is required.", event.requestId))]
    ELSE IF ~isAllowedOrigin(event.origin)
    THEN [pass |-> FALSE,
          response |-> jsonResponse(403, event.origin,
              ErrorBody("origin_not_allowed", "Origin not allowed.", event.requestId))]
    ELSE [pass |-> TRUE]

\* handleContact of the booking handler, up to the email send
BookingContact(event) ==
    LET guardResponse == withOriginGuard(event) IN
    IF ~guardResponse.pass THEN Respond(guardResponse.response, <<>>, NoErrors)
    ELSE LET trace      == <<"origin_accepted">>
             parsedBody == parseJsonBody(event) IN
    IF ~parsedBody.ok THEN Respond(parsedBody.response, trace, NoErrors)
    ELSE LET input       == normaliseContactInput(parsedBody.parsed)
             fieldErrors == validateContact(input)
             t2          == Append(trace, "body_parsed")
         IN  IF DOMAIN fieldErrors # {}
             THEN Respond(ValidationFailed(event.origin,
                              "Please correct the highlighted fields and try again.",
                              fieldErrors, event.requestId),
                          Append(t2, "validation_failed"), fieldErrors)
             ELSE Await("email", [kind |-> "email", what |-> "contact"],
                        t2 \o <<"validation_passed", "email_attempt">>, fieldErrors, 0)

\* a confirmation whose id is made from the slot instead of randomUUID
BookingConfirmed_IdFromSlot(event, bookingId, slotStart, slotEnd, notificationSent) ==
    jsonResponse(200, event.origin,
        [status |-> "success",
         message |-> "Your discovery call request has been received. We will confirm your slot by email shortly.",
         bookingId |-> slotStart.h * 60 + slotStart.mi, slotStart |-> slotStart,
         slotEnd |-> slotEnd,
         notificationSent |-> notificationSent, requestId |-> event.requestId])

\* the 200 response of handleBooking
BookingConfirmed(event, bookingId, slotStart, slotEnd, notificationSent) ==
    jsonResponse(200, event.origin,
        [status |-> "success",
         message |-> "Your discovery call request has been received. We will confirm your slot by email shortly.",
         bookingId |-> bookingId, slotStart |-> slotStart, slotEnd |-> slotEnd,
         notificationSent |-> notificationSent, requestId |-> event.requestId])

\* sanitise(str) of the booking handler calls str.replace: it throws a TypeError
\* on a value that is truthy and no string
SanitiseThrows(v) == Truthy(v) /\ ~IsString(v)

\* handleBooking up to the email send.  sendBookingEmail formats its fields
\* before it calls ses.send; an exception there fails the attempt and is
\* caught like a failed send
handleBooking(event) ==
    LET guardResponse == withOriginGuard(event) IN
    IF ~guardResponse.pass THEN Respond(guardResponse.response, <<>>, NoErrors)
    ELSE LET trace      == <<"origin_accepted">>
             parsedBody == parseJsonBody(event) IN
    IF ~parsedBody.ok THEN Respond(parsedBody.response, trace, NoErrors)
    ELSE LET input       == normaliseBookingInput(parsedBody.parsed)
             fieldErrors == validateBookingInput(input, now, cfg)
             t2          == Append(trace, "body_parsed")
         IN  IF DOMAIN fieldErrors # {}
             THEN Respond(ValidationFailed(event.origin,
                              "Please correct the highlighted booking fields and try again.",
                              fieldErrors, event.requestId),
                          Append(t2, "validation_failed"), fieldErrors)
             ELSE LET slotStartDate == ParseDate(input.slotStart.s)
                      slotStart     == toIsoUtc(slotStartDate)
                      slotEnd       == toIsoUtc(PlusMinutes(slotStartDate, cfg.slotDuration))
                      bookingId     == uuids + 1
                      t3            == Append(t2, "validation_passed")
                  IN  IF SanitiseThrows(input.timezone)
                      THEN [Respond(BookingConfirmed(event, bookingId, slotStart, slotEnd, FALSE),
                                    t3 \o <<"email_attempt", "email_failed">>, fieldErrors)
                              EXCEPT !.newUuids = 1]
                      ELSE Await("email",
                                 [kind |-> "email", what |-> "booking", bookingId |-> bookingId,
                                  slotStart |-> slotStart, slotEnd |-> slotEnd],
                                 Append(t3, "email_attempt"), fieldErrors, 1)

\* handleAvailability; it is called without the origin guard
handleAvailability(event) ==
    LET days         == ClampParam(event.query.days, 7, 1, 21)
        startDateUtc == AvailabilityStart(event.query.date, now)
    IN  IF IsNaN(startDateUtc)
        THEN Respond(jsonResponse(400, event.origin,
                         ErrorBody("invalid_date", "date must be YYYY-MM-DD in UTC.",
                                   event.requestId)),
                     <<>>, NoErrors)
        ELSE Respond(jsonResponse(200, event.origin,
                         [status |-> "success", requestId |-> event.requestId,
                          slotDurationMinutes |-> cfg.slotDuration, timezone |-> "UTC",
                          slots |-> generateCandidateSlots(startDateUtc, days, now, cfg)]),
                     <<>>, NoErrors)

\* a booking handler that picks the route by the path alone
BookingHandler_ByPath(event) ==
    IF event.method = "OPTIONS"
    THEN Respond([statusCode |-> 204, headers |-> corsHeaders(event.origin)], <<>>, NoErrors)
    ELSE IF event.path = "/health"
    THEN Respond(jsonResponse(200, event.origin,
                     [status |-> "ok", service |-> "waterapps-contact-form",
                      requestId |-> event.requestId, timestamp |-> toISOString(now)]),
                 <<>>, NoErrors)
    ELSE IF event.path = "/availability"
    THEN handleAvailability(event)
    ELSE IF event.path = "/contact"
    THEN BookingContact(event)
    ELSE IF event.path = "/booking"
    THEN handleBooking(event)
    ELSE Respond(jsonResponse(404, event.origin,
                     ErrorBody("not_found", "Endpoint not found.", event.requestId)),
                 <<>>, NoErrors)

\* the booking handler (index.mjs:1627-1702) from the event to its first await
BookingHandler(event) ==
    IF event.method = "OPTIONS"
    THEN Respond([statusCode |-> 204, headers |-> corsHeaders(event.origin)], <<>>, NoErrors)
    ELSE IF event.method = "GET" /\ event.path = "/health"
    THEN Respond(jsonResponse(200, event.origin,
                     [status |-> "ok", service |-> "waterapps-contact-form",
                      requestId |-> event.requestId, timestamp |-> toISOString(now)]),
                 <<>>, NoErrors)
    ELSE IF event.method = "GET" /\ event.path = "/availability"
    THEN handleAvailability(event)
    ELSE IF event.method = "POST" /\ event.path = "/contact"
    THEN BookingContact(event)
    ELSE IF event.method = "POST" /\ event.path = "/booking"
    THEN handleBooking(event)
    ELSE IF event.path \in {"/contact", "/booking", "/availability", "/health"}
    THEN Respond(jsonResponse(405, event.origin,
                     ErrorBody("method_not_allowed", "Method is not supported for this path.",
                               event.requestId)),
                 <<>>, NoErrors)
    ELSE Respond(jsonResponse(404, event.origin,
                     ErrorBody("not_found", "Endpoint not found.", event.requestId)),
                 <<>>, NoErrors)

\* export const handler: the one the environment deploys
Handler(event) ==
    IF env.handler = "reviews" THEN ReviewsHandler(event) ELSE BookingHandler(event)

(***************************************************************************)
(* Continuations: what the handler does with the outcome of an awaited     *)
(* call.                                                                   *)
(***************************************************************************)
\* an update that sets the status and keeps the other attributes the item has
Merge_KeepsOlder(item, upd) ==
    [k \in DOMAIN item \cup DOMAIN upd |->
        IF k \in DOMAIN upd /\ (k = "status" \/ k \notin DOMAIN item) THEN upd[k] ELSE item[k]]

\* item with the attributes of upd set (UpdateItem SET, PutItem)
Merge(item, upd) ==
    [k \in DOMAIN item \cup DOMAIN upd |-> IF k \in DOMAIN upd THEN upd[k] ELSE item[k]]

StorePut(table, item) ==
    [id \in DOMAIN table \cup {item.review_id} |->
        IF id = item.review_id THEN item ELSE table[id]]

\* an update that also restamps the creation time
ModerationUpdate_RestampsCreation(op) ==
    [status          |-> op.decision,
     created_at      |-> op.updatedAt,
     updated_at      |-> op.updatedAt,
     moderated_at    |-> op.updatedAt,
     moderated_by    |-> op.moderatedBy,
     moderation_note |-> op.moderationNote.s]

\* the attributes dynamoModerateReview sets
ModerationUpdate(op) ==
    [status          |-> op.decision,
     updated_at      |-> op.updatedAt,
     moderated_at    |-> op.updatedAt,
     moderated_by    |-> op.moderatedBy,
     moderation_note |-> op.moderationNote.s]

RECURSIVE NewestFirst(_, _)
\* the ids of a set, newest (largest) first, at most limit of them
NewestFirst(ids, limit) ==
    IF ids = {} \/ limit = 0 THEN <<>>
    ELSE LET top == CHOOSE i \in ids : \A j \in ids : j <= i
         IN  <<top>> \o NewestFirst(ids \ {top}, limit - 1)

\* dynamoQueryReviewsByStatus and the projection handleReviewList returns
ReviewList(table, status, limit) ==
    LET ids  == NewestFirst({i \in DOMAIN table : table[i].status = status}, limit)
    IN  [n \in 1 .. Len(ids) |->
            [review_id |-> ids[n], status |-> table[ids[n]].status,
             created_at |-> table[ids[n]].created_at,
             updated_at |-> table[ids[n]].updated_at,
             moderated |-> "moderated_at" \in DOMAIN table[ids[n]],
             request_id |-> table[ids[n]].request_id]]

\* the store answers the awaited request: 2xx, or the conditional-check failure
AfterStore(i, table) ==
    LET event == i.event
        op    == i.op
        t2    == Append(i.trace, "store_completed")
    IN  CASE op.kind = "PutItem" ->
               IF op.item.review_id \in DOMAIN table
               THEN InternalError(event, Append(i.trace, "condition_failed"), i.fieldErrors)
               ELSE Await("email", [kind |-> "email", what |-> "review",
                                    reviewId |-> op.item.review_id],
                          Append(t2, "email_attempt"), i.fieldErrors, 0)
          [] op.kind = "Query" ->
               LET reviews == ReviewList(table, op.status, op.limit)
               IN  Respond(jsonResponse(200, event.origin,
                               [status |-> "success", filter |-> op.status,
                                count |-> Len(reviews), reviews |-> reviews,
                                requestId |-> event.requestId]),
                           t2, i.fieldErrors)
          [] op.kind = "UpdateItem" ->
               IF op.reviewId \in DOMAIN table
               THEN LET item == Merge(table[op.reviewId], ModerationUpdate(op))
                    IN  Respond(jsonResponse(200, event.origin,
                                    [status |-> "success", message |-> op.decision,
                                     review |-> [review_id       |-> item.review_id,
                                                 status          |-> item.status,
                                                 moderated_at    |-> item.moderated_at,
                                                 moderated_by    |-> item.moderated_by,
                                                 moderation_note |-> item.moderation_note],
                                     requestId |-> event.requestId]),
                                t2, i.fieldErrors)
               ELSE Respond(jsonResponse(404, event.origin,
                                ErrorBody("review_not_found", "Review does not exist.",
                                          event.requestId)),
                            Append(i.trace, "condition_failed"), i.fieldErrors)

\* a store whose update creates the record when there is none
StoreAfter_Upserts(op, table) ==
    CASE op.kind = "PutItem" ->
           IF op.item.review_id \in DOMAIN table THEN table ELSE StorePut(table, op.item)
      [] op.kind = "UpdateItem" ->
           [id \in DOMAIN table \cup {op.reviewId} |->
               IF id # op.reviewId THEN table[id]
               ELSE IF id \in DOMAIN table THEN Merge(table[id], ModerationUpdate(op))
               ELSE Merge([review_id |-> id], ModerationUpdate(op))]
      [] OTHER -> table

\* a store that only updates a pending record
StoreAfter_PendingOnly(op, table) ==
    CASE op.kind = "PutItem" ->
           IF op.item.review_id \in DOMAIN table THEN table ELSE StorePut(table, op.item)
      [] op.kind = "UpdateItem" ->
           IF op.reviewId \in DOMAIN table /\ table[op.reviewId].status = "pending"
           THEN [table EXCEPT ![op.reviewId] = Merge(@, ModerationUpdate(op))]
           ELSE table
      [] OTHER -> table

\* a store whose put replaces the record that has the id
StoreAfter_PutOverwrites(op, table) ==
    CASE op.kind = "PutItem" -> StorePut(table, op.item)
      [] op.kind = "UpdateItem" ->
           IF op.reviewId \in DOMAIN table
           THEN [table EXCEPT ![op.reviewId] = Merge(@, ModerationUpdate(op))]
           ELSE table
      [] OTHER -> table

\* the table after the store has applied the request
StoreAfter(op, table) ==
    CASE op.kind = "PutItem" ->
           IF op.item.review_id \in DOMAIN table THEN table ELSE StorePut(table, op.item)
      [] op.kind = "UpdateItem" ->
           IF op.reviewId \in DOMAIN table
           THEN [table EXCEPT ![op.reviewId] = Merge(@, ModerationUpdate(op))]
           ELSE table
      [] OTHER -> table

\* a request layer that sends a failed request once more
AfterStoreFault_Retries(i) ==
    IF \E k \in 1 .. Len(i.trace) : i.trace[k] = "store_failed"
    THEN InternalError(i.event, Append(i.trace, "store_failed"), i.fieldErrors)
    ELSE Await("store", i.op, i.trace \o <<"store_failed", "store_request">>, i.fieldErrors, 0)

\* the awaited store request fails otherwise (non-2xx, or fetch rejects):
\* dynamoRequest throws, handleReviewModeration rethrows, the handler catches
AfterStoreFault(i) ==
    InternalError(i.event, Append(i.trace, "store_failed"), i.fieldErrors)

\* ses.send resolves
AfterEmail(i) ==
    LET event == i.event
        t2    == Append(i.trace, "email_sent")
    IN  CASE i.op.what = "contact" ->
               Respond(jsonResponse(200, event.origin,
                           [status |-> "success",
                            message |-> "Thank you for contacting WaterApps. We'll be in touch within 24 hours.",
                            requestId |-> event.requestId]),
                       t2, i.fieldErrors)
          [] i.op.what = "review" ->
               Respond(jsonResponse(200, event.origin,
                           [status |-> "success",
                            message |-> "Thank you. Your review has been submitted for verification.",
                            reviewId |-> i.op.reviewId, requestId |-> event.requestId]),
                       t2, i.fieldErrors)
          [] i.op.what = "booking" ->
               Respond(BookingConfirmed(event, i.op.bookingId, i.op.slotStart, i.op.slotEnd, TRUE),
                       t2, i.fieldErrors)

\* a booking handler that lets a failed send fail the request
AfterEmailFault_Unwinds(i) ==
    InternalError(i.event, Append(i.trace, "email_failed"), i.fieldErrors)

\* ses.send rejects
AfterEmailFault(i) ==
    LET event == i.event
        t2    == Append(i.trace, "email_failed")
    IN  IF i.op.what = "booking"
        THEN Respond(BookingConfirmed(event, i.op.bookingId, i.op.slotStart, i.op.slotEnd, FALSE),
                     t2, i.fieldErrors)
        ELSE IF env.handler = "booking"
        THEN Respond(jsonResponse(500, event.origin,
                         ErrorBody("internal_error",
                                   "Something went wrong. Please email varun@waterapps.com.au directly.",
                                   event.requestId)),
                     t2, i.fieldErrors)
        ELSE InternalError(event, t2, i.fieldErrors)

(***************************************************************************)
(* Events                                                                  *)
(***************************************************************************)
MaxUuids == 1

AltOrigin == "https://waterapps.com.au"

EvilOrigin == "https://evil.example"

Text(n) ==
    [len |-> n, pad |-> 0, upper |-> FALSE, links |-> 0, run |-> 1, shape |-> [k |-> "plain"]]

EmailText(n) == [Text(n) EXCEPT !.shape = [k |-> "email"]]

PhoneText(n) == [Text(n) EXCEPT !.shape = [k |-> "phone"]]

UrlText(protocol, host, path) ==
    [Text(40) EXCEPT !.shape = [k |-> "url", protocol |-> protocol, host |-> host,
                                path |-> path]]

Word(seq) == JStr(Chars(seq))

FieldNames ==
    {"name", "email", "company", "phone", "message", "role", "linkedin", "review",
     "rating", "consent", "notes", "timezone", "slotStart", "decision", "note"}

NoFields == [f \in FieldNames |-> Undefined]

\* values of the wrong type for a text field
Mismatches == {JNum(123), JBool(TRUE), JArr(<<>>), JObj(FALSE), JObj(TRUE)}

Falsy == {JNum(0), JBool(FALSE), JNull, Undefined, JStr(EmptyString)}

\* the time the handler specification runs at: Thursday 2026-03-05T01:30:30.500Z
HandlerNow == Instant(BaseDay * MinutesPerDay + 90, 30500)

DefaultConfig ==
    [slotDuration |-> 30, lookaheadDays |-> 14, minLead |-> 120,
     startHour |-> 0, endHour |-> 8, workdays |-> {1, 2, 3, 4, 5}]

\* a slot that DefaultConfig offers at HandlerNow: 2026-03-05T04:00:00Z
GoodSlot == Instant(BaseDay * MinutesPerDay + 240, 0)

BookingSlotValues ==
    { JStr(Reshape(toISOString(GoodSlot), f)) : f \in {"msZ", "secZ", "minZ", "offset", "space"} }
      \cup { JStr(Reshape(toISOString(t), "msZ")) :
               t \in { Instant(GoodSlot.min, 30000), Instant(GoodSlot.min, 500),
                       Instant(GoodSlot.min + 15, 0), Instant(GoodSlot.min - 60, 0),
                       Instant(GoodSlot.min + 240, 0),
                       Instant(GoodSlot.min + 2 * MinutesPerDay, 0),
                       Instant(GoodSlot.min + 15 * MinutesPerDay, 0) } }
      \cup { JStr([form |-> "junkZ", y |-> 0, mo |-> 0, d |-> 0, h |-> 0, mi |-> 0,
                   s |-> 0, ms |-> 0]),
             JStr(Reshape(toISOString(GoodSlot), "date")) }

FieldValues(f) ==
    CASE f = "name"      -> {JStr(Text(1)), JStr(Text(2)), JStr(Text(120)), JStr(Text(121)),
                             JStr([Text(2) EXCEPT !.pad = 3])}
      [] f = "email"     -> {JStr(EmailText(254)), JStr(EmailText(255)), JStr(Text(16)),
                             JStr([EmailText(16) EXCEPT !.upper = TRUE, !.pad = 1])}
      [] f = "company"   -> {JStr(Text(120)), JStr(Text(121)), JStr(EmptyString)}
      [] f = "role"      -> {JStr(Text(120)), JStr(Text(121))}
      [] f = "phone"     -> {JStr(PhoneText(5)), JStr(PhoneText(6)), JStr(PhoneText(30)),
                             JStr(PhoneText(31)), JStr(Text(10))}
      [] f = "message"   -> {JStr(Text(9)), JStr(Text(10)), JStr(Text(4000)), JStr(Text(4001)),
                             JStr([Text(200) EXCEPT !.links = 3]),
                             JStr([Text(200) EXCEPT !.links = 4]),
                             JStr([Text(200) EXCEPT !.run = 14]),
                             JStr([Text(200) EXCEPT !.run = 15])}
      [] f = "review"    -> {JStr(Text(29)), JStr(Text(30)), JStr(Text(2500)), JStr(Text(2501)),
                             JStr([Text(200) EXCEPT !.links = 4]),
                             JStr([Text(200) EXCEPT !.run = 15])}
      [] f = "notes"     -> {JStr(Text(1500)), JStr(Text(1501)),
                             JStr([Text(200) EXCEPT !.links = 4]),
                             JStr([Text(200) EXCEPT !.run = 15])}
      [] f = "timezone"  -> {JStr(Text(16))} \cup Falsy
      [] f = "linkedin"  -> {JStr(UrlText("https:", <<"linkedin", "com">>, "/in/jane")),
                             JStr(UrlText("https:", <<"au", "linkedin", "com">>, "/in/jane")),
                             JStr(UrlText("http:", <<"www", "linkedin", "com">>, "/in/jane")),
                             JStr(UrlText("https:", <<"www", "linkedin", "com">>, "/")),
                             JStr(UrlText("https:", <<"example", "com">>, "/jane")),
                             JStr(UrlText("https:", <<"evillinkedin", "com">>, "/in/jane")),
                             JStr([UrlText("https:", <<"www", "linkedin", "com">>, "/in/jane")
                                     EXCEPT !.len = 501]),
                             JStr(Text(20))}
      [] f = "rating"    -> {Word(<<"5">>), Word(<<"6">>), Word(<<" ", "3", " ">>), JNum(3),
                             JNum(7), JArr(<<JNum(4)>>), JArr(<<JObj(TRUE)>>)} \cup Falsy
      [] f = "consent"   -> {Word(<<"y", "e", "s">>), Word(<<"Y", "e", "s">>), JNum(1)} \cup Falsy
      [] f = "slotStart" -> BookingSlotValues \cup Falsy
      [] f = "decision"  -> {Word(<<"r", "e", "j", "e", "c", "t", "e", "d">>),
                             Word(<<" ", "A", "p", "p", "r", "o", "v", "e", "d", "\n">>),
                             Word(<<"h", "o", "l", "d">>),
                             JArr(<<Word(<<"a", "p", "p", "r", "o", "v", "e", "d">>)>>),
                             JArr(<<JObj(TRUE)>>)} \cup Falsy
      [] f = "note"      -> {JStr(Text(12)), JStr([Text(12) EXCEPT !.pad = 2])} \cup Falsy

ContactFields == {"name", "email", "company", "phone", "message"}

ReviewFields == {"name", "email", "role", "company", "linkedin", "review", "rating", "consent"}

BookingFields == {"name", "email", "company", "notes", "timezone", "slotStart"}

ModerationFields == {"decision", "note"}

ContactBase ==
    [NoFields EXCEPT !.name = JStr(Text(11)), !.email = JStr(EmailText(16)),
                     !.message = JStr(Text(31))]

ReviewBase ==
    [NoFields EXCEPT !.name = JStr(Text(11)), !.email = JStr(EmailText(16)),
                     !.linkedin = JStr(UrlText("https:", <<"www", "linkedin", "com">>, "/in/jane")),
                     !.review = JStr(Text(60)), !.consent = JBool(TRUE)]

BookingBase ==
    [NoFields EXCEPT !.name = JStr(Text(11)), !.email = JStr(EmailText(16)),
                     !.slotStart = JStr(toIsoUtc(GoodSlot))]

ModerationBase ==
    [NoFields EXCEPT !.decision = Word(<<"a", "p", "p", "r", "o", "v", "e", "d">>)]

\* the base, and the base with one field replaced
Singles(base, fields) ==
    {base} \cup { [base EXCEPT ![f] = v] :
                    <<f, v>> \in UNION { {g} \X (FieldValues(g) \cup Mismatches) : g \in fields } }

\* the same, and each of them with one more field of the wrong type
Variants(base, fields) ==
    LET second == CHOOSE g \in fields : TRUE
    IN  Singles(base, fields) \cup { [b EXCEPT ![second] = JNum(123)] : b \in Singles(base, fields) }

JsonBody(fields) ==
    [bytes |-> 200, isBase64Encoded |-> FALSE, kind |-> "object", fields |-> fields]

BrokenBodies ==
    { [JsonBody(NoFields) EXCEPT !.bytes = n, !.kind = k] :
        <<n, k>> \in { <<MAX_BODY_BYTES + 1, "object">>, <<MAX_BODY_BYTES + 1, "invalid">>,
                       <<MAX_BODY_BYTES, "invalid">>, <<MAX_BODY_BYTES, "object">>,
                       <<20, "array">>, <<4, "null">>, <<1, "scalar">>, <<0, "object">> } }
      \cup
    { [JsonBody(NoFields) EXCEPT !.bytes = n, !.kind = k, !.isBase64Encoded = TRUE] :
        <<n, k>> \in { <<21848, "object">>, <<21848, "invalid">>, <<21844, "object">>,
                       <<21844, "array">> } }

NoClaims == [email |-> "", username |-> "", sub |-> ""]

NoParam == [k |-> "absent", n |-> 0]

NoQuery == [status |-> EmptyString, limit |-> NoParam, days |-> NoParam, date |-> [k |-> "absent"]]

BaseEvent ==
    [method |-> "POST", path |-> "/contact", origin |-> DefaultOrigin, requestId |-> "req-1",
     sourceIp |-> "127.0.0.1", userAgent |-> "", body |-> JsonBody(ContactBase),
     reviewId |-> 0, claims |-> NoClaims, query |-> NoQuery]

Paths ==
    {"/contact", "/reviews", "/reviews/{reviewId}/moderate", "/health", "/availability",
     "/booking", "/unknown"}

BaseFor(path) ==
    CASE path = "/reviews" -> ReviewBase
      [] path = "/booking" -> BookingBase
      [] path = "/reviews/{reviewId}/moderate" -> ModerationBase
      [] OTHER -> ContactBase

\* every method on every path from every origin, with a well-formed body
RoutingEvents ==
    { [BaseEvent EXCEPT !.method = m, !.path = p, !.origin = o,
                        !.body = JsonBody(BaseFor(p)), !.reviewId = 1] :
        m \in {"GET", "POST", "OPTIONS", "DELETE"}, p \in Paths,
        o \in {"", DefaultOrigin, AltOrigin, EvilOrigin} }

\* POST requests to the form routes with every body
FormEvents ==
    UNION { { [BaseEvent EXCEPT !.path = p, !.body = b] :
                b \in BrokenBodies \cup { JsonBody(f) : f \in Variants(BaseFor(p), fs) } } :
            <<p, fs>> \in { <<"/contact", ContactFields>>, <<"/reviews", ReviewFields>>,
                            <<"/booking", BookingFields>> } }

\* a moderation request by an unnamed moderator for the first review
ModerationEvent ==
    [BaseEvent EXCEPT !.path = "/reviews/{reviewId}/moderate", !.body = JsonBody(ModerationBase),
                      !.reviewId = 1]

\* the moderation request with another body, another review or another moderator
ModerationEvents ==
    { [ModerationEvent EXCEPT !.body = b] :
        b \in BrokenBodies \cup { JsonBody(f) : f \in Singles(ModerationBase, ModerationFields) } }
      \cup { [ModerationEvent EXCEPT !.reviewId = id] : id \in 0 .. MaxUuids + 1 }
      \cup { [ModerationEvent EXCEPT !.claims = c] :
                c \in { [NoClaims EXCEPT !.sub = "sub-1"],
                        [email |-> "mod@waterapps.com.au", username |-> "mod", sub |-> "sub-1"] } }

QueryEvents ==
    { [BaseEvent EXCEPT !.method = "GET", !.path = "/reviews", !.query = q] :
        q \in { [NoQuery EXCEPT !.status = st, !.limit = l] :
                  st \in { EmptyString, Chars(<<"A", "p", "p", "r", "o", "v", "e", "d">>),
                           Chars(<<"a", "l", "l">>) },
                  l \in { NoParam, [k |-> "nan", n |-> 0], [k |-> "num", n |-> 0],
                          [k |-> "num", n |-> 1000] } } }
      \cup
    { [BaseEvent EXCEPT !.method = "GET", !.path = "/availability", !.origin = o, !.query = q] :
        o \in {"", DefaultOrigin},
        q \in { [NoQuery EXCEPT !.days = d, !.date = t] :
                  d \in { NoParam, [k |-> "num", n |-> 2], [k |-> "num", n |-> 22] },
                  t \in { [k |-> "absent"],
                          [k |-> "given", s |-> Chars(<<"t", "o", "d", "a", "y">>)] } } }

Events == RoutingEvents \cup FormEvents \cup ModerationEvents \cup QueryEvents

\* the requests that read or change the table, and one well-formed request
\* for each form route
TableEvents ==
    ModerationEvents \cup QueryEvents
      \cup { [BaseEvent EXCEPT !.path = p, !.body = JsonBody(BaseFor(p))] :
                p \in {"/contact", "/reviews", "/booking"} }

\* the form handlers and the routing never read the table: their variants are
\* sent while the table is empty, the requests on the table at any time
EventsAt(table) == IF DOMAIN table = {} THEN Events ELSE TableEvents

Envs ==
    { [handler |-> "reviews", allowedOrigins |-> <<DefaultOrigin>>, table |-> "reviews",
       creds |-> TRUE],
      [handler |-> "reviews", allowedOrigins |-> <<DefaultOrigin>>, table |-> "reviews",
       creds |-> FALSE],
      [handler |-> "reviews", allowedOrigins |-> <<DefaultOrigin>>, table |-> "",
       creds |-> TRUE],
      [handler |-> "reviews", allowedOrigins |-> <<>>, table |-> "reviews", creds |-> TRUE],
      [handler |-> "booking", allowedOrigins |-> <<AltOrigin, DefaultOrigin>>, table |-> "",
       creds |-> TRUE],
      [handler |-> "booking", allowedOrigins |-> <<>>, table |-> "", creds |-> TRUE] }

(***************************************************************************)
(* The handler specification                                               *)
(***************************************************************************)
Procs == {"inv1"}

\* an invocation that has not started; replaced is the status the record had
\* before the store applied the invocation's update, "none" without one
Idle ==
    [pc |-> "idle", event |-> BaseEvent, resp |-> NoResponse, trace |-> <<>>,
     fieldErrors |-> NoErrors, op |-> NoOp, replaced |-> "none"]

Init ==
    /\ env \in Envs
    /\ cfg = DefaultConfig
    /\ now = HandlerNow
    /\ store = <<>>
    /\ uuids = 0
    /\ inv = [p \in Procs |-> Idle]
    /\ slots = <<>>
    /\ genArgs = NoCall
    /\ checked = Undefined
    /\ verdict = "unset"

\* the invocation after a step with the given result
Advance(i, event, result) ==
    [pc |-> result.pc, event |-> event, resp |-> result.resp, trace |-> result.trace,
     fieldErrors |-> result.fieldErrors, op |-> result.op, replaced |-> i.replaced]

\* the platform invokes the handler with an event; limit bounds the ids drawn
InvokeUpTo(p, event, limit) ==
    LET result == Handler(event) IN
    /\ inv[p].pc = "idle"
    /\ uuids + result.newUuids <= limit
    /\ inv' = [inv EXCEPT ![p] = Advance(@, event, result)]
    /\ uuids' = uuids + result.newUuids
    /\ UNCHANGED <<env, store, cfg, now, slots, genArgs, checked, verdict>>

\* the same, with the ids bounded by MaxUuids
Invoke(p, event) ==
    LET result == Handler(event) IN
    /\ inv[p].pc = "idle"
    /\ uuids + result.newUuids <= MaxUuids
    /\ inv' = [inv EXCEPT ![p] = Advance(@, event, result)]
    /\ uuids' = uuids + result.newUuids
    /\ UNCHANGED <<env, store, cfg, now, slots, genArgs, checked, verdict>>

\* the store applies and answers the request the invocation awaits
StoreRespond(p) ==
    /\ inv[p].pc = "store"
    /\ store' = StoreAfter(inv[p].op, store)
    /\ inv' = [inv EXCEPT ![p] =
                 [Advance(@, @.event, AfterStore(@, store))
                    EXCEPT !.replaced = IF inv[p].op.kind = "UpdateItem"
                                           /\ inv[p].op.reviewId \in DOMAIN store
                                        THEN store[inv[p].op.reviewId].status
                                        ELSE "none"]]
    /\ UNCHANGED <<env, uuids, cfg, now, slots, genArgs, checked, verdict>>

\* the store request fails without effect
StoreFault(p) ==
    /\ inv[p].pc = "store"
    /\ inv' = [inv EXCEPT ![p] = Advance(@, @.event, AfterStoreFault(@))]
    /\ UNCHANGED <<env, store, uuids, cfg, now, slots, genArgs, checked, verdict>>

\* the email service accepts the message
EmailDelivered(p) ==
    /\ inv[p].pc = "email"
    /\ inv' = [inv EXCEPT ![p] = Advance(@, @.event, AfterEmail(@))]
    /\ UNCHANGED <<env, store, uuids, cfg, now, slots, genArgs, checked, verdict>>

\* the email send fails
EmailFault(p) ==
    /\ inv[p].pc = "email"
    /\ inv' = [inv EXCEPT ![p] = Advance(@, @.event, AfterEmailFault(@))]
    /\ UNCHANGED <<env, store, uuids, cfg, now, slots, genArgs, checked, verdict>>

\* the platform takes the response (or the rejection); the invocation ends
Return(p) ==
    /\ inv[p].pc \in {"done", "rejected"}
    /\ inv' = [inv EXCEPT ![p] = Idle]
    /\ UNCHANGED <<env, store, uuids, cfg, now, slots, genArgs, checked, verdict>>

Next ==
    \E p \in Procs :
        \/ \E event \in EventsAt(store) : Invoke(p, event)
        \/ StoreRespond(p)
        \/ StoreFault(p)
        \/ EmailDelivered(p)
        \/ EmailFault(p)
        \/ Return(p)

Spec == Init /\ [][Next]_vars

(***************************************************************************)
(* Properties of the handlers                                              *)
(***************************************************************************)
\* the trace of an invocation holds the event
Has(trace, e) == \E k \in 1 .. Len(trace) : trace[k] = e

\* the error code of a response, "" when it carries none
CodeOf(resp) ==
    IF "body" \in DOMAIN resp /\ "code" \in DOMAIN resp.body THEN resp.body.code ELSE ""

\* the request's Origin header is non-empty and in the allowed-origin set
OriginInAllowedSet(event) ==
    /\ event.origin # ""
    /\ event.origin \in { env.allowedOrigins[k] : k \in 1 .. Len(env.allowedOrigins) }

\* the fields of the input of a form route
RouteFields(path) ==
    CASE path = "/contact" -> ContactFields
      [] path = "/reviews" -> ReviewFields
      [] path = "/booking" -> BookingFields
      [] OTHER -> {}

\* a POST to a form route whose body the handler has parsed as a JSON object
ParsedForm(i) ==
    /\ i.pc # "idle"
    /\ i.event.method = "POST"
    /\ i.event.path \in {"/contact", "/reviews", "/booking"}
    /\ Has(i.trace, "body_parsed")

\* C3: POST /reviews, the store write succeeded and the notification email
\* failed: the response is still 200 success and carries the reviewId.
C3_EmailFailureKeepsSuccess ==
    \A p \in Procs :
        LET i == inv[p] IN
        (/\ i.pc = "done"
         /\ i.event.method = "POST" /\ i.event.path = "/reviews"
         /\ Has(i.trace, "store_completed")
         /\ Has(i.trace, "email_failed"))
        => (/\ i.resp.statusCode = 200
            /\ i.resp.body.status = "success"
            /\ "reviewId" \in DOMAIN i.resp.body)

\* C4: on the three form routes, a field of the input that holds a number, a
\* boolean, an array or an object gets a field error and the response is 400
\* validation_failed.
C4_TypeMismatchIsFieldError ==
    \A p \in Procs :
        LET i == inv[p] IN
        ParsedForm(i) =>
            \A f \in RouteFields(i.event.path) :
                i.event.body.fields[f].t \in {"number", "boolean", "array", "object"}
                => (/\ i.pc = "done"
                    /\ i.resp.statusCode = 400
                    /\ CodeOf(i.resp) = "validation_failed"
                    /\ f \in DOMAIN i.resp.body.fieldErrors)

\* C5: on a mutating route, a request whose Origin is empty or outside the
\* allowed set is answered at once: no body parsing, no validation, no store
\* request and no email send.
C5_NoLogicWithoutOrigin ==
    \A p \in Procs :
        LET i == inv[p] IN
        (/\ i.pc # "idle"
         /\ i.event.method = "POST"
         /\ i.event.path \in {"/contact", "/reviews", "/reviews/{reviewId}/moderate", "/booking"}
         /\ ~OriginInAllowedSet(i.event))
        => (/\ i.pc = "done"
            /\ i.trace = <<"responded">>
            /\ i.op = NoOp
            /\ CodeOf(i.resp) \in {"origin_required", "origin_not_allowed", "not_found"})

C5_Witness ==
    \E p \in Procs :
        /\ inv[p].pc = "done"
        /\ inv[p].event.method = "POST"
        /\ inv[p].event.path = "/reviews/{reviewId}/moderate"
        /\ inv[p].event.origin = EvilOrigin
        /\ Len(env.allowedOrigins) > 0
        /\ env.handler = "reviews"
        /\ inv[p].resp.statusCode = 403

\* the map the route validator returns for the parsed body of a form request
RouteErrors(event) ==
    CASE event.path = "/contact" -> validateContact(normaliseContactInput(event.body.fields))
      [] event.path = "/reviews" -> validateReview(normaliseReviewInput(event.body.fields))
      [] event.path = "/booking" ->
             validateBookingInput(normaliseBookingInput(event.body.fields), now, cfg)

\* C6: on the three form routes, when the validator returns a non-empty map the
\* response is 400 validation_failed with exactly that map, and the invocation
\* has made no store request and no email send.
C6_ValidationShortCircuit ==
    \A p \in Procs :
        LET i == inv[p] IN
        (/\ ParsedForm(i)
         /\ ~(i.event.path = "/reviews" /\ RatingThrows(i.event.body.fields))
         /\ DOMAIN RouteErrors(i.event) # {})
        => (/\ i.pc = "done"
            /\ i.resp.statusCode = 400
            /\ CodeOf(i.resp) = "validation_failed"
            /\ i.resp.body.fieldErrors = RouteErrors(i.event)
            /\ ~Has(i.trace, "store_request")
            /\ ~Has(i.trace, "email_attempt")
            /\ i.op = NoOp)

C6_Witness ==
    \E p \in Procs :
        /\ inv[p].pc = "done"
        /\ ParsedForm(inv[p])
        /\ CodeOf(inv[p].resp) = "validation_failed"
        /\ Cardinality(DOMAIN inv[p].resp.body.fieldErrors) >= 2

\* the place of a trace event in the order of an invocation
Rank(e) ==
    CASE e = "origin_accepted" -> 1
      [] e = "body_parsed" -> 2
      [] e \in {"validation_failed", "validation_passed", "moderation_accepted", "threw"} -> 3
      [] e = "store_request" -> 4
      [] e \in {"store_completed", "store_failed", "condition_failed", "signing_failed"} -> 5
      [] e = "email_attempt" -> 6
      [] e \in {"email_sent", "email_failed"} -> 7
      [] e \in {"responded", "rejected"} -> 8

\* C7: the events of an invocation come in the order origin accepted, body
\* parsed, validation passed, store write completed, notification attempted,
\* response returned: a store write is requested only after validation passed,
\* and a review's notification is attempted only after its write completed.
C7_Ordering ==
    \A p \in Procs :
        LET i == inv[p]
            t == i.trace
            before(k, e) == \E j \in 1 .. k - 1 : t[j] = e
        IN  /\ \A j, k \in 1 .. Len(t) : j < k => Rank(t[j]) < Rank(t[k])
            /\ \A k \in 1 .. Len(t) :
                 /\ (t[k] = "store_request" /\ i.event.method = "POST")
                        => /\ before(k, "origin_accepted")
                           /\ before(k, "body_parsed")
                           /\ before(k, "validation_passed") \/ before(k, "moderation_accepted")
                 /\ t[k] = "email_attempt"
                        => /\ before(k, "origin_accepted")
                           /\ before(k, "body_parsed")
                           /\ before(k, "validation_passed")
                           /\ i.event.path = "/reviews" => before(k, "store_completed")
                 /\ t[k] = "responded" => k = Len(t)
            /\ (i.pc = "done" /\ i.event.method = "POST" /\ i.event.path = "/reviews"
                  /\ i.resp.statusCode = 200)
                   => t = <<"origin_accepted", "body_parsed", "validation_passed",
                            "store_request", "store_completed", "email_attempt",
                            "email_sent", "responded">>

C7_Witness ==
    \E p \in Procs :
        /\ inv[p].pc = "done"
        /\ inv[p].event.path = "/reviews"
        /\ inv[p].resp.statusCode = 200
        /\ Has(inv[p].trace, "store_completed")
        /\ Has(inv[p].trace, "email_sent")
        /\ 1 \in DOMAIN store

\* C8: POST /booking with an allowed Origin and valid input always ends in 200
\* success with a fresh bookingId, slotStart and slotEnd; there is one send
\* attempt, and notificationSent tells whether it succeeded.
C8_BookingAlwaysConfirmed ==
    \A p \in Procs :
        LET i == inv[p] IN
        (/\ i.pc # "idle"
         /\ i.event.method = "POST" /\ i.event.path = "/booking"
         /\ Has(i.trace, "body_parsed")
         /\ DOMAIN RouteErrors(i.event) = {})
        => /\ i.pc \in {"email", "done"}
           /\ Cardinality({k \in 1 .. Len(i.trace) : i.trace[k] = "email_attempt"}) = 1
           /\ i.pc = "done" =>
                /\ i.resp.statusCode = 200
                /\ i.resp.body.status = "success"
                /\ i.resp.body.bookingId = uuids /\ uuids >= 1
                /\ ParseDate(i.resp.body.slotStart).min
                       = ParseDate(normaliseBookingInput(i.event.body.fields).slotStart.s).min
                /\ ParseDate(i.resp.body.slotEnd)
                       = PlusMinutes(ParseDate(i.resp.body.slotStart), cfg.slotDuration)
                /\ i.resp.body.notificationSent = Has(i.trace, "email_sent")
                /\ i.resp.body.notificationSent = ~Has(i.trace, "email_failed")

C8_Witness ==
    \E p \in Procs :
        /\ inv[p].pc = "done"
        /\ inv[p].event.path = "/booking"
        /\ inv[p].event.body.fields.timezone.t = "string"
        /\ Has(inv[p].trace, "email_failed")
        /\ inv[p].resp.statusCode = 200
        /\ inv[p].resp.body.notificationSent = FALSE

\* a collaborator failed or an exception was thrown during the invocation
Failed(i) ==
    \/ Has(i.trace, "store_failed")
    \/ Has(i.trace, "signing_failed")
    \/ Has(i.trace, "threw")
    \/ Has(i.trace, "condition_failed") /\ i.event.path = "/reviews"
    \/ Has(i.trace, "email_failed") /\ i.event.path = "/contact"

\* C9: the handler never rejects; after a store failure (other than the
\* conditional-check failure of moderation), missing credentials, a failed
\* email send on POST /contact or an exception, it resolves with a 500
\* internal_error whose body holds the generic message and the requestId only.
C9_CatchAll ==
    \A p \in Procs :
        LET i == inv[p] IN
        /\ i.pc # "rejected"
        /\ Failed(i) =>
             /\ i.pc = "done"
             /\ i.resp.statusCode = 500
             /\ DOMAIN i.resp.body = {"status", "code", "message", "requestId"}
             /\ i.resp.body.status = "error"
             /\ i.resp.body.code = "internal_error"
             /\ i.resp.body.message \in
                  {"Something went wrong. Please email hello@waterapps.com.au directly.",
                   "Something went wrong. Please email varun@waterapps.com.au directly."}
             /\ i.resp.body.requestId = i.event.requestId

C9_Witness ==
    \E p \in Procs :
        /\ inv[p].pc = "done"
        /\ Has(inv[p].trace, "store_failed")
        /\ inv[p].event.path = "/reviews/{reviewId}/moderate"
        /\ inv[p].resp.statusCode = 500

\* C10: POST /reviews/{reviewId}/moderate with a decision that is not the
\* text approved or rejected (after lower-casing and trimming) is answered 400
\* invalid_decision, and no UpdateItem request is sent.
C10_OnlyApprovedOrRejected ==
    \A p \in Procs :
        LET i == inv[p]
            d == i.event.body.fields.decision
        IN  (/\ i.pc # "idle"
             /\ i.event.method = "POST"
             /\ i.event.path = "/reviews/{reviewId}/moderate"
             /\ Has(i.trace, "body_parsed")
             /\ ~(IsString(d) /\ WordOf(trim(toLowerCase(d.s))) \in {"approved", "rejected"}))
            => (/\ i.pc = "done"
                /\ i.resp.statusCode = 400
                /\ CodeOf(i.resp) = "invalid_decision"
                /\ ~Has(i.trace, "store_request"))

(***************************************************************************)
(* Properties of moderation and of the reviews table                       *)
(***************************************************************************)
\* the invocation awaited a store request of the kind, and the store answered
\* it in this step
StoreAnswered(p, kind) ==
    /\ inv[p].pc = "store"
    /\ inv[p].op.kind = kind
    /\ inv'[p].pc # "store"
    /\ ~Has(inv'[p].trace, "store_failed")

\* C11: moderating a reviewId that has no record returns 404 review_not_found
\* and leaves the table unchanged; the update never creates a record.
C11_MissingReviewNotFound ==
    [][\A p \in DOMAIN inv :
         (StoreAnswered(p, "UpdateItem") /\ inv[p].op.reviewId \notin DOMAIN store)
         => (/\ store' = store
             /\ inv'[p].pc = "done"
             /\ inv'[p].resp.statusCode = 404
             /\ CodeOf(inv'[p].resp) = "review_not_found")]_vars

C11_Witness ==
    \E p \in Procs :
        /\ inv[p].pc = "done"
        /\ inv[p].event.path = "/reviews/{reviewId}/moderate"
        /\ CodeOf(inv[p].resp) = "review_not_found"
        /\ DOMAIN store # {}
        /\ inv[p].event.reviewId \notin DOMAIN store

\* C12: moderating a record that is already approved or rejected succeeds with
\* 200 and overwrites status, moderated_at, moderated_by and moderation_note;
\* the record only has to exist.
C12_ReModerationOverwrites ==
    [][\A p \in DOMAIN inv :
         (StoreAnswered(p, "UpdateItem") /\ inv[p].op.reviewId \in DOMAIN store)
         => LET op  == inv[p].op
                new == store'[op.reviewId]
            IN  /\ new.status = op.decision
                /\ new.moderated_at = op.updatedAt
                /\ new.moderated_by = op.moderatedBy
                /\ new.moderation_note = op.moderationNote.s
                /\ inv'[p].pc = "done"
                /\ inv'[p].resp.statusCode = 200
                /\ inv'[p].resp.body.review.status = op.decision]_vars

C12_Witness ==
    \E p \in Procs :
        /\ inv[p].pc = "done"
        /\ inv[p].resp.statusCode = 200
        /\ inv[p].replaced = "approved"
        /\ inv[p].event.reviewId \in DOMAIN store
        /\ store[inv[p].event.reviewId].status = "rejected"

\* the moderator the claims name: email, else username, else subject, else admin
ClaimedModerator(claims) ==
    CHOOSE m \in {claims.email, claims.username, claims.sub, "admin"} :
        /\ m # ""
        /\ (m # claims.email => claims.email = "")
        /\ (m \notin {claims.email, claims.username} => claims.username = "")
        /\ (m \notin {claims.email, claims.username, claims.sub} => claims.sub = "")

UuidRepeats ==
    /\ uuids > 0
    /\ uuids' \in 0 .. uuids - 1
    /\ UNCHANGED <<env, store, inv, cfg, now, slots, genArgs, checked, verdict>>

CollisionNext == Next \/ UuidRepeats

\* the handlers with an id generator that may repeat itself
CollisionSpec == Init /\ [][CollisionNext]_vars

\* C14: a PutItem never overwrites: a new id creates the record as submitted,
\* with status pending and created_at = updated_at; an id that is already in
\* the table fails the condition, the table stays as it is and the request does
\* not report success.
C14_CreationNeverOverwrites ==
    [][\A p \in DOMAIN inv :
         StoreAnswered(p, "PutItem")
         => LET item == inv[p].op.item
                id   == item.review_id
            IN  /\ \A k \in DOMAIN store : k \in DOMAIN store' /\ store'[k] = store[k]
                /\ id \in DOMAIN store
                     => /\ store' = store
                        /\ inv'[p].pc = "done"
                        /\ inv'[p].resp.statusCode = 500
                        /\ CodeOf(inv'[p].resp) = "internal_error"
                /\ id \notin DOMAIN store
                     => /\ DOMAIN store' = DOMAIN store \cup {id}
                        /\ store'[id] = item
                        /\ item.status = "pending"
                        /\ item.created_at = item.updated_at]_vars

C14_Witness ==
    \E p \in Procs :
        /\ inv[p].pc = "done"
        /\ inv[p].event.method = "POST" /\ inv[p].event.path = "/reviews"
        /\ Has(inv[p].trace, "condition_failed")
        /\ inv[p].resp.statusCode = 500
        /\ 1 \in DOMAIN store

(***************************************************************************)
(* Properties of the origin guard, the body parser and the CORS headers    *)
(***************************************************************************)
\* the request is one the deployed handler puts through its origin guard
Guarded(event) ==
    IF env.handler = "reviews"
    THEN event.method # "OPTIONS" /\ ~(event.method = "GET" /\ event.path = "/health")
    ELSE event.method = "POST" /\ event.path \in {"/contact", "/booking"}

\* C15: a guarded request without an Origin is answered 403 origin_required, one
\* with an Origin outside the allowed set 403 origin_not_allowed, whatever its
\* route and body.
C15_GuardDecision ==
    \A p \in DOMAIN inv :
        LET i == inv[p] IN
        (i.pc # "idle" /\ Guarded(i.event) /\ ~OriginInAllowedSet(i.event))
        => (/\ i.pc = "done"
            /\ i.resp.statusCode = 403
            /\ CodeOf(i.resp) = IF i.event.origin = "" THEN "origin_required"
                                ELSE "origin_not_allowed")

C15_Witness ==
    \E p \in Procs :
        /\ env.handler = "booking"
        /\ inv[p].pc = "done"
        /\ inv[p].event.method = "POST" /\ inv[p].event.path = "/booking"
        /\ inv[p].event.origin = ""
        /\ CodeOf(inv[p].resp) = "origin_required"

\* the request is for one of the six routes behind the guard, on the handler
\* that serves the route
BehindGuard(event) ==
    \/ /\ env.handler = "reviews"
       /\ \/ event.method = "POST" /\ event.path \in {"/contact", "/reviews",
                                                      "/reviews/{reviewId}/moderate"}
          \/ event.method = "GET" /\ event.path = "/reviews"
    \/ /\ env.handler = "booking"
       /\ \/ event.method = "POST" /\ event.path \in {"/contact", "/booking"}
          \/ event.method = "GET" /\ event.path = "/availability"

\* C16: OPTIONS gets a bare 204 and GET /health gets 200 ok whatever the Origin;
\* every other route returns 403 when the Origin is absent or not allowed.
C16_OnlyOptionsAndHealthBypass ==
    \A p \in DOMAIN inv :
        LET i == inv[p] IN
        i.pc # "idle"
        => /\ i.event.method = "OPTIONS"
                => i.pc = "done" /\ i.resp.statusCode = 204 /\ "body" \notin DOMAIN i.resp
           /\ (i.event.method = "GET" /\ i.event.path = "/health")
                => i.pc = "done" /\ i.resp.statusCode = 200 /\ i.resp.body.status = "ok"
           /\ (BehindGuard(i.event) /\ ~OriginInAllowedSet(i.event))
                => i.pc = "done" /\ i.resp.statusCode = 403

\* the request reaches the body parser of its route
ReachesParser(i) ==
    /\ i.pc # "idle"
    /\ i.event.method = "POST"
    /\ OriginInAllowedSet(i.event)
    /\ \/ /\ env.handler = "reviews"
          /\ \/ i.event.path = "/contact"
             \/ i.event.path = "/reviews" /\ env.table # ""
             \/ /\ i.event.path = "/reviews/{reviewId}/moderate"
                /\ env.table # ""
                /\ i.event.reviewId # 0
       \/ env.handler = "booking" /\ i.event.path \in {"/contact", "/booking"}

\* C17: the body parser answers 413 payload_too_large when the decoded body is
\* longer than the ceiling, else 400 invalid_json when it is no JSON, else 400
\* invalid_payload when it is no object, else hands the object on; a body of
\* the ceiling size passes, and a failure is never followed by validation, a
\* store request or an email send.
C17_ParserOrder ==
    \A p \in DOMAIN inv :
        LET i      == inv[p]
            body   == i.event.body
            length == IF body.isBase64Encoded THEN 3 * (body.bytes \div 4) ELSE body.bytes
            class  == IF length > MAX_BODY_BYTES THEN "payload_too_large"
                      ELSE IF body.kind = "invalid" THEN "invalid_json"
                      ELSE IF body.kind # "object" THEN "invalid_payload"
                      ELSE ""
        IN  ReachesParser(i)
            => /\ class # ""
                    => /\ i.pc = "done"
                       /\ CodeOf(i.resp) = class
                       /\ i.resp.statusCode = IF class = "payload_too_large" THEN 413 ELSE 400
                       /\ i.trace = <<"origin_accepted", "responded">>
                       /\ i.op = NoOp
               /\ class = ""
                    => /\ Has(i.trace, "body_parsed")
                       /\ CodeOf(i.resp) \notin {"payload_too_large", "invalid_json",
                                                 "invalid_payload"}

C17_Witness ==
    \E p \in Procs :
        /\ inv[p].pc = "done"
        /\ inv[p].event.body.kind = "invalid"
        /\ inv[p].event.body.isBase64Encoded
        /\ inv[p].resp.statusCode = 413

\* C18: every response carries Access-Control-Allow-Origin; its value is the
\* request's Origin when that is in the allowed set, else the first configured
\* origin, else the built-in default - never an origin outside the allowed set.
C18_CorsHeaderAlwaysAllowed ==
    \A p \in DOMAIN inv :
        LET i == inv[p] IN
        i.pc = "done"
        => /\ "headers" \in DOMAIN i.resp
           /\ "allowOrigin" \in DOMAIN i.resp.headers
           /\ i.resp.headers.allowOrigin =
                IF OriginInAllowedSet(i.event) THEN i.event.origin
                ELSE IF Len(env.allowedOrigins) > 0 THEN env.allowedOrigins[1]
                ELSE "https://www.waterapps.com.au"

C18_Witness ==
    \E p \in Procs :
        /\ inv[p].pc = "done"
        /\ inv[p].event.origin = EvilOrigin
        /\ inv[p].resp.statusCode = 403
        /\ Len(env.allowedOrigins) > 1
        /\ inv[p].resp.headers.allowOrigin = env.allowedOrigins[1]

\* C19: no slot that GET /availability returns, and no slotStart that POST
\* /booking accepts, starts more than lookaheadDays days after now.
C19_WithinLookahead ==
    LET horizon == PlusMinutes(now, cfg.lookaheadDays * MinutesPerDay)
    IN  /\ \A i \in 1 .. Len(slots) : ~Before(horizon, ParseDate(slots[i].slotStart))
        /\ (verdict = "" /\ IsString(checked)) => ~Before(horizon, ParseDate(checked.s))

(***************************************************************************)
(* Concurrent invocations: two invocations of the reviews handler share    *)
(* the table and nothing else                                              *)
(***************************************************************************)
MaxTicks == 2

ConcProcs == {"inv1", "inv2"}

\* a second moderation request that differs from ModerationEvent in decision,
\* note and moderator
CounterModeration ==
    [ModerationEvent EXCEPT
        !.body = JsonBody([ModerationBase EXCEPT
                              !.decision = Word(<<"r", "e", "j", "e", "c", "t", "e", "d">>),
                              !.note = JStr(Text(12))]),
        !.claims = [email |-> "mod@waterapps.com.au", username |-> "mod", sub |-> "sub-1"]]

ConcModerations == {ModerationEvent, CounterModeration}

ConcEvents ==
    ConcModerations \cup {[BaseEvent EXCEPT !.path = "/reviews", !.body = JsonBody(ReviewBase)]}

ConcInit ==
    /\ env = [handler |-> "reviews", allowedOrigins |-> <<DefaultOrigin>>, table |-> "reviews",
              creds |-> TRUE]
    /\ cfg = DefaultConfig
    /\ now = HandlerNow
    /\ store = <<>>
    /\ uuids = 0
    /\ inv = [p \in ConcProcs |-> Idle]
    /\ slots = <<>>
    /\ genArgs = NoCall
    /\ checked = Undefined
    /\ verdict = "unset"

\* time passes
Tick ==
    /\ now.min < HandlerNow.min + MaxTicks
    /\ now' = PlusMinutes(now, 1)
    /\ UNCHANGED <<env, store, uuids, inv, cfg, slots, genArgs, checked, verdict>>

ConcNext ==
    \/ \E p \in ConcProcs :
        \/ \E event \in ConcEvents : Invoke(p, event)
        \/ StoreRespond(p)
        \/ StoreFault(p)
        \/ EmailDelivered(p)
        \/ EmailFault(p)
        \/ Return(p)
    \/ Tick

ConcSpec == ConcInit /\ [][ConcNext]_vars

\* the record holds what the moderation request set, timestamp apart
SetBy(record, event) ==
    /\ IsString(event.body.fields.decision)
    /\ record.status = WordOf(trim(toLowerCase(event.body.fields.decision.s)))
    /\ record.moderated_by = ClaimedModerator(event.claims)
    /\ record.moderation_note =
         IF IsString(event.body.fields.note) THEN trim(event.body.fields.note.s)
         ELSE EmptyString

\* C20: when moderations of one record interleave, the record's status,
\* updated_at, moderated_at, moderated_by and moderation_note always come from
\* one request, the one the store applied last, and each request whose update
\* the store applied returns 200.
C20_ConcurrentModerationsConsistent ==
    /\ [](\A id \in DOMAIN store :
            "moderated_at" \in DOMAIN store[id]
            => /\ store[id].updated_at = store[id].moderated_at
               /\ \E event \in ConcModerations : SetBy(store[id], event))
    /\ [][\A p \in DOMAIN inv :
            (StoreAnswered(p, "UpdateItem") /\ inv[p].op.reviewId \in DOMAIN store)
            => LET op  == inv[p].op
                   new == store'[op.reviewId]
               IN  /\ SetBy(new, inv[p].event)
                   /\ new.updated_at = op.updatedAt
                   /\ new.moderated_at = op.updatedAt
                   /\ inv'[p].pc = "done"
                   /\ inv'[p].resp.statusCode = 200
                   /\ SetBy(inv'[p].resp.body.review, inv[p].event)
                   /\ \A q \in DOMAIN inv \ {p} : inv'[q] = inv[q]]_vars

\* both requests have returned 200; the one that was invoked first was applied
\* last, and the record is its
C20_Witness ==
    \E p, q \in ConcProcs :
        /\ inv[p].pc = "done" /\ inv[p].resp.statusCode = 200
        /\ inv[q].pc = "done" /\ inv[q].resp.statusCode = 200
        /\ inv[p].event = ModerationEvent
        /\ inv[q].event = CounterModeration
        /\ inv[p].replaced = "rejected"
        /\ Before(ParseDate(inv[p].resp.body.review.moderated_at),
                  ParseDate(inv[q].resp.body.review.moderated_at))
        /\ SetBy(store[1], ModerationEvent)
        /\ store[1].moderated_at = inv[p].resp.body.review.moderated_at

(***************************************************************************)
(* Properties of the collaborator calls and of the routing                 *)
(***************************************************************************)
\* how many times the event occurs in the trace
Count(trace, e) == Cardinality({k \in 1 .. Len(trace) : trace[k] = e})

\* the collaborator calls the invocation has made and not yet seen the outcome of
Outstanding(trace) ==
    Count(trace, "store_request") + Count(trace, "email_attempt")
      - Count(trace, "store_completed") - Count(trace, "store_failed")
      - Count(trace, "condition_failed")
      - Count(trace, "email_sent") - Count(trace, "email_failed")

\* C21: an invocation makes at most one store request and at most one email
\* send; a failed store request or email send is the last call it makes; and
\* it never has two calls in flight.
C21_NoRetryNoFanOut ==
    \A p \in DOMAIN inv :
        LET t == inv[p].trace IN
        /\ Count(t, "store_request") <= 1
        /\ Count(t, "email_attempt") <= 1
        /\ \A j, k \in 1 .. Len(t) :
             (j < k /\ t[j] \in {"store_failed", "condition_failed", "email_failed"})
             => t[k] \notin {"store_request", "email_attempt"}
        /\ Outstanding(t) \in {0, 1}
        /\ Outstanding(t) = 1 <=> inv[p].pc \in {"store", "email"}
        /\ inv[p].pc = "store" => t[Len(t)] = "store_request"
        /\ inv[p].pc = "email" => t[Len(t)] = "email_attempt"

C21_Witness ==
    \E p \in Procs :
        /\ inv[p].pc = "done"
        /\ inv[p].event.method = "POST" /\ inv[p].event.path = "/reviews"
        /\ Has(inv[p].trace, "store_failed")
        /\ Count(inv[p].trace, "store_request") = 1
        /\ inv[p].resp.statusCode = 500

\* the (method, path) pairs the deployed handler has a route for
Routes ==
    IF env.handler = "reviews"
    THEN {<<"GET", "/health">>, <<"POST", "/contact">>, <<"POST", "/reviews">>,
          <<"GET", "/reviews">>, <<"POST", "/reviews/{reviewId}/moderate">>}
    ELSE {<<"GET", "/health">>, <<"GET", "/availability">>, <<"POST", "/contact">>,
          <<"POST", "/booking">>}

\* the paths the claim calls known
KnownPaths == {"/contact", "/booking", "/availability", "/health"}

\* the request gets as far as the route table: it is no pre-flight and, on the
\* reviews handler, it has passed the origin guard
Dispatched(i) ==
    /\ i.pc # "idle"
    /\ i.event.method # "OPTIONS"
    /\ env.handler = "reviews" => OriginInAllowedSet(i.event)

\* the answer was given by the route table itself: no parsing, no validation,
\* no store request, no email send
AnsweredByRouter(i, statusCode, code) ==
    /\ i.pc = "done"
    /\ i.resp.statusCode = statusCode
    /\ CodeOf(i.resp) = code
    /\ i.op = NoOp
    /\ \A k \in 1 .. Len(i.trace) : i.trace[k] \in {"origin_accepted", "responded"}

\* the collaborator call the invocation awaits, or has made, belongs to the
\* handler of its (method, path) and to no other
CallOfItsRoute(i) ==
    LET route    == <<i.event.method, i.event.path>>
        made(op) ==
            CASE op.kind = "PutItem"    -> route = <<"POST", "/reviews">>
              [] op.kind = "Query"      -> route = <<"GET", "/reviews">>
              [] op.kind = "UpdateItem" -> route = <<"POST", "/reviews/{reviewId}/moderate">>
              [] op.kind = "email"      ->
                   route = (CASE op.what = "contact" -> <<"POST", "/contact">>
                              [] op.what = "review"  -> <<"POST", "/reviews">>
                              [] op.what = "booking" -> <<"POST", "/booking">>)
              [] OTHER -> TRUE
    IN  /\ made(i.op)
        /\ (Has(i.trace, "store_request") \/ Has(i.trace, "email_attempt")) => route \in Routes

\* C22 as stated: a dispatched request whose path is one of the known paths but
\* whose method has no handler gets 405 method_not_allowed, and one whose path
\* is no route's path gets 404; neither makes a store request or an email send.
C22_Original_KnownPathWrongMethodIs405 ==
    \A p \in DOMAIN inv :
        LET i     == inv[p]
            route == <<i.event.method, i.event.path>>
        IN  (Dispatched(i) /\ route \notin Routes)
            => IF i.event.path \in KnownPaths
               THEN AnsweredByRouter(i, 405, "method_not_allowed")
               ELSE \/ AnsweredByRouter(i, 404, "route_not_found")
                    \/ AnsweredByRouter(i, 404, "not_found")

\* C22 (amended): route dispatch is a function of (method, path).  On the
\* booking handler a request for no route gets 405 method_not_allowed when its
\* path is a known path and 404 not_found otherwise; on the reviews handler it
\* gets 404 route_not_found in both cases.  Neither makes a store request or
\* an email send, and the call an invocation makes is the call of the one
\* handler of its (method, path).
C22_RouteDispatch ==
    \A p \in DOMAIN inv :
        LET i     == inv[p]
            route == <<i.event.method, i.event.path>>
        IN  /\ (Dispatched(i) /\ route \notin Routes)
               => IF env.handler = "reviews"
                  THEN AnsweredByRouter(i, 404, "route_not_found")
                  ELSE IF i.event.path \in KnownPaths
                  THEN AnsweredByRouter(i, 405, "method_not_allowed")
                  ELSE AnsweredByRouter(i, 404, "not_found")
            /\ (Dispatched(i) /\ route \in Routes)
               => i.resp.statusCode \notin {404, 405} \/ CodeOf(i.resp) = "review_not_found"
            /\ i.pc # "idle" => CallOfItsRoute(i)

C22_Witness ==
    \E p \in Procs :
        /\ env.handler = "booking"
        /\ inv[p].pc = "done"
        /\ inv[p].event.method = "DELETE" /\ inv[p].event.path = "/booking"
        /\ inv[p].resp.statusCode = 405
        /\ CodeOf(inv[p].resp) = "method_not_allowed"

(***************************************************************************)
(* Properties of the slot engine and of the bookings                       *)
(***************************************************************************)
\* the fields handleBooking reads of a request that books the slot start with
\* a valid name and email
BookingOf(slotStart) ==
    normaliseBookingInput([NoFields EXCEPT !.name = JStr(Text(11)),
                                           !.email = JStr(EmailText(16)),
                                           !.slotStart = JStr(slotStart)])

\* C23: every slot GET /availability returns can be booked under the same
\* clock: POST /booking with its slotStart passes validation, and the slotStart
\* and slotEnd of the 200 response are the strings of the slot.
C23_AvailabilityRoundTrip ==
    \A i \in 1 .. Len(slots) :
        LET input         == BookingOf(slots[i].slotStart)
            slotStartDate == ParseDate(input.slotStart.s)
        IN  /\ DOMAIN validateBookingInput(input, now, cfg) = {}
            /\ toIsoUtc(slotStartDate) = slots[i].slotStart
            /\ toIsoUtc(PlusMinutes(slotStartDate, cfg.slotDuration)) = slots[i].slotEnd

\* a moderation request whose body was parsed and whose decision is the text
\* approved or rejected (after lower-casing and trimming)
ValidModeration(i) ==
    /\ i.pc # "idle"
    /\ i.event.method = "POST"
    /\ i.event.path = "/reviews/{reviewId}/moderate"
    /\ Has(i.trace, "body_parsed")
    /\ IsString(i.event.body.fields.decision)
    /\ WordOf(trim(toLowerCase(i.event.body.fields.decision.s))) \in {"approved", "rejected"}

\* C24: in a moderation with a valid decision, a note that is a number, a
\* boolean, an array or an object is answered 400 invalid_note and no
\* UpdateItem request is sent; an absent note is stored as the empty string.
C24_NoteMustBeText ==
    \A p \in DOMAIN inv :
        LET i    == inv[p]
            note == i.event.body.fields.note
        IN  ValidModeration(i)
            => /\ note.t \in {"number", "boolean", "array", "object"}
                    => /\ i.pc = "done"
                       /\ i.resp.statusCode = 400
                       /\ CodeOf(i.resp) = "invalid_note"
                       /\ ~Has(i.trace, "store_request")
               /\ (note.t = "undefined" /\ i.pc = "store")
                    => i.op.moderationNote = JStr(EmptyString)

(***************************************************************************)
(* The loops of generateCandidateSlots, one iteration at a time.  The      *)
(* configuration is what Number() makes of the environment: the code does  *)
(* not test it, so a duration may be zero or negative.  genArgs holds the  *)
(* loop variables, slots the list under construction.                      *)
(***************************************************************************)
MaxIters == 64

\* a % n of JavaScript for n > 0: the result has the sign of a
JsRemainder(a, n) == IF a >= 0 THEN a % n ELSE 0 - ((0 - a) % n)

LoopConfigs ==
    { [DefaultConfig EXCEPT !.slotDuration = d, !.endHour = e, !.minLead = l] :
        d \in {30, 45, 0, -30}, e \in {1, 8}, l \in {0, 120} }

LoopDays == { [k |-> "num", n |-> n] : n \in {0, 2, 3} }

LoopInit ==
    /\ cfg \in LoopConfigs
    /\ now = HandlerNow
    /\ slots = <<>>
    /\ genArgs = NoCall
    /\ checked = Undefined
    /\ verdict = "unset"
    /\ env = [handler |-> "booking", allowedOrigins |-> <<>>, table |-> "", creds |-> TRUE]
    /\ store = <<>>
    /\ uuids = 0
    /\ inv = <<>>

\* handleAvailability calls generateCandidateSlots: const slots = []
Generate(daysParam) ==
    /\ genArgs = NoCall
    /\ genArgs' = [kind |-> "running", startDateUtc |-> UtcMidnight(now),
                   days |-> ClampDays(daysParam), offset |-> 0, minutes |-> 0,
                   inner |-> FALSE, iters |-> 0]
    /\ slots' = <<>>
    /\ UNCHANGED <<cfg, now, checked, verdict>>
    /\ UNCHANGED handlerVars

\* the head of the outer loop: the next day, or the return
OuterLoop ==
    /\ genArgs.kind = "running" /\ ~genArgs.inner
    /\ LET day == PlusMinutes(genArgs.startDateUtc, genArgs.offset * MinutesPerDay)
       IN  genArgs' =
             IF genArgs.offset >= genArgs.days THEN [genArgs EXCEPT !.kind = "returned"]
             ELSE IF getUTCDay(day) \notin cfg.workdays
             THEN [genArgs EXCEPT !.offset = @ + 1]
             ELSE [genArgs EXCEPT !.inner = TRUE, !.minutes = cfg.startHour * 60]
    /\ UNCHANGED <<cfg, now, slots, checked, verdict>>
    /\ UNCHANGED handlerVars

\* the head of the inner loop: one more tick of the day, or the next day
InnerLoop ==
    /\ genArgs.kind = "running" /\ genArgs.inner
    /\ genArgs.iters < MaxIters
    /\ LET day       == PlusMinutes(genArgs.startDateUtc, genArgs.offset * MinutesPerDay)
           civ       == CivilFromDays(day.min \div MinutesPerDay)
           minutes   == genArgs.minutes
           hour      == minutes \div 60
           minute    == JsRemainder(minutes, 60)
           startTime == DateUTC(civ.y, civ.m, civ.d, hour, minute)
           endTime   == PlusMinutes(startTime, cfg.slotDuration)
       IN  IF minutes + cfg.slotDuration <= cfg.endHour * 60
           THEN /\ genArgs' = [genArgs EXCEPT !.minutes = @ + cfg.slotDuration,
                                              !.iters = @ + 1]
                /\ slots' = IF Before(startTime, PlusMinutes(now, cfg.minLead)) THEN slots
                            ELSE Append(slots, [slotStart |-> toIsoUtc(startTime),
                                                slotEnd   |-> toIsoUtc(endTime)])
           ELSE /\ genArgs' = [genArgs EXCEPT !.inner = FALSE, !.offset = @ + 1]
                /\ slots' = slots
    /\ UNCHANGED <<cfg, now, checked, verdict>>
    /\ UNCHANGED handlerVars

\* the caller takes the list
LoopReturn ==
    /\ genArgs.kind = "returned"
    /\ genArgs' = NoCall
    /\ slots' = <<>>
    /\ UNCHANGED <<cfg, now, checked, verdict>>
    /\ UNCHANGED handlerVars

LoopNext ==
    \/ \E dp \in LoopDays : Generate(dp)
    \/ OuterLoop
    \/ InnerLoop
    \/ LoopReturn

LoopSpec == LoopInit /\ [][LoopNext]_vars

\* C25: generateCandidateSlots returns after finitely many steps, whatever
\* duration and hours the configuration holds: the inner loop runs at most
\* once for each minute between startHour and endHour of each day, and the
\* list it returns has at most days * floor((endHour - startHour) * 60 /
\* slotDurationMinutes) slots.
C25_GenerationTerminates ==
    genArgs.kind \in {"running", "returned"}
    => /\ genArgs.iters <= genArgs.days * (cfg.endHour - cfg.startHour) * 60
       /\ (genArgs.kind = "returned" /\ cfg.slotDuration > 0)
            => Len(slots) <= genArgs.days
                               * (((cfg.endHour - cfg.startHour) * 60) \div cfg.slotDuration)

\* C26: every slot generateCandidateSlots emits is legal and the list is
\* chronological: the slot lies on a workday among the requested days, starts
\* on a tick of the grid that begins at startHour, ends by endHour, starts no
\* earlier than now + minLeadMinutes (a tick exactly at that instant is in the
\* list), ends slotDurationMinutes after its start, and starts later than the
\* slot before it.
C26_SlotsLegalAndChronological ==
    genArgs.kind = "generated"
    => LET first    == genArgs.startDateUtc
           earliest == PlusMinutes(now, cfg.minLead)
           tick     == (earliest.min % MinutesPerDay) - cfg.startHour * 60
           start(i) == ParseDate(slots[i].slotStart)
       IN  /\ \A i \in 1 .. Len(slots) :
                LET t == start(i)
                    m == t.min % MinutesPerDay
                IN  /\ t.ms = 0
                    /\ getUTCDay(t) \in cfg.workdays
                    /\ t.min >= first.min
                    /\ t.min < first.min + genArgs.days * MinutesPerDay
                    /\ m >= cfg.startHour * 60
                    /\ (m - cfg.startHour * 60) % cfg.slotDuration = 0
                    /\ m + cfg.slotDuration <= cfg.endHour * 60
                    /\ ~Before(t, earliest)
                    /\ ParseDate(slots[i].slotEnd) = PlusMinutes(t, cfg.slotDuration)
                    /\ slots[i].slotStart.form = "secZ" /\ slots[i].slotEnd.form = "secZ"
                    /\ i > 1 => Before(start(i - 1), t)
           /\ (/\ earliest.ms = 0
               /\ getUTCDay(earliest) \in cfg.workdays
               /\ earliest.min >= first.min
               /\ earliest.min < first.min + genArgs.days * MinutesPerDay
               /\ tick >= 0
               /\ tick % cfg.slotDuration = 0
               /\ (earliest.min % MinutesPerDay) + cfg.slotDuration <= cfg.endHour * 60)
              => (Len(slots) > 0 /\ start(1) = earliest)

\* a list that starts with the tick at now + minLeadMinutes and runs over a
\* weekend
C26_Witness ==
    /\ genArgs.kind = "generated"
    /\ Len(slots) > 1
    /\ ParseDate(slots[1].slotStart) = PlusMinutes(now, cfg.minLead)
    /\ cfg.minLead > 0
    /\ \E i \in 1 .. Len(slots) - 1 :
         ParseDate(slots[i + 1].slotStart).min - ParseDate(slots[i].slotStart).min
           > 2 * MinutesPerDay

(***************************************************************************)
(* Properties of the validators and of the stored records                  *)
(***************************************************************************)
\* the free-text field of a form route
FreeTextField(path) ==
    CASE path = "/contact" -> "message"
      [] path = "/reviews" -> "review"
      [] path = "/booking" -> "notes"

\* the text passes the length checks of its field
LengthAccepted(path, text) ==
    CASE path = "/contact" -> StrLen(text) >= 10 /\ StrLen(text) <= 4000
      [] path = "/reviews" -> StrLen(text) >= 30 /\ StrLen(text) <= 2500
      [] path = "/booking" -> StrLen(text) <= 1500

\* C27: on the three form routes, a free-text value (contact message, review
\* text, booking notes) that passes its length checks but holds more than 3
\* links or a run of 15 or more identical characters gets a field error and
\* the request ends in 400 validation_failed before any store request or
\* email send; 3 links and a run of 14 get no field error.
C27_AntiSpamOnEveryFreeText ==
    \A p \in DOMAIN inv :
        LET i == inv[p] IN
        (ParsedForm(i) /\ ~(i.event.path = "/reviews" /\ RatingThrows(i.event.body.fields)))
        => LET f == FreeTextField(i.event.path)
               v == i.event.body.fields[f]
           IN  (IsString(v) /\ "links" \in DOMAIN v.s /\ LengthAccepted(i.event.path, v.s))
               => IF v.s.links > 3 \/ v.s.run >= 15
                  THEN /\ i.pc = "done"
                       /\ i.resp.statusCode = 400
                       /\ CodeOf(i.resp) = "validation_failed"
                       /\ f \in DOMAIN i.resp.body.fieldErrors
                       /\ ~Has(i.trace, "store_request")
                       /\ ~Has(i.trace, "email_attempt")
                  ELSE f \notin DOMAIN i.fieldErrors

(***************************************************************************)
(* The reviews handler on a table of several records: submissions, lists   *)
(* and moderations of any of them                                          *)
(***************************************************************************)
MaxRecords == 2

\* a moderation request that asks for the status pending
PendingModeration ==
    [ModerationEvent EXCEPT
        !.body = JsonBody([ModerationBase EXCEPT
                              !.decision = Word(<<"p", "e", "n", "d", "i", "n", "g">>)])]

FrameEvents ==
    { [BaseEvent EXCEPT !.path = "/reviews", !.body = JsonBody(ReviewBase)],
      [BaseEvent EXCEPT !.method = "GET", !.path = "/reviews"],
      [BaseEvent EXCEPT !.method = "GET", !.path = "/reviews",
                        !.query = [NoQuery EXCEPT !.status =
                                     Chars(<<"a", "p", "p", "r", "o", "v", "e", "d">>)]] }
      \cup { [e EXCEPT !.reviewId = id] :
               e \in {ModerationEvent, CounterModeration, PendingModeration},
               id \in 1 .. MaxRecords + 1 }

FrameNext ==
    \/ \E p \in Procs :
        \/ \E event \in FrameEvents : InvokeUpTo(p, event, MaxRecords)
        \/ StoreRespond(p)
        \/ StoreFault(p)
        \/ EmailDelivered(p)
        \/ EmailFault(p)
        \/ Return(p)
    \/ Tick

FrameInit ==
    /\ env = [handler |-> "reviews", allowedOrigins |-> <<DefaultOrigin>>, table |-> "reviews",
              creds |-> TRUE]
    /\ cfg = DefaultConfig
    /\ now = HandlerNow
    /\ store = <<>>
    /\ uuids = 0
    /\ inv = [p \in Procs |-> Idle]
    /\ slots = <<>>
    /\ genArgs = NoCall
    /\ checked = Undefined
    /\ verdict = "unset"

FrameSpec == FrameInit /\ [][FrameNext]_vars

\* the attributes a review record gets from its submission
SubmissionFields ==
    {"review_id", "name", "email", "role", "company", "linkedin", "review", "rating",
     "consent", "created_at", "expires_at", "origin", "request_id", "source_ip", "user_agent"}

ModerationFieldsSet ==
    {"status", "updated_at", "moderated_at", "moderated_by", "moderation_note"}

\* C28: no step deletes a record; a record changes only when the store applies
\* a moderation of it, which sets status, updated_at, moderated_at,
\* moderated_by and moderation_note (moderated_at = updated_at) and leaves
\* the submission fields and every other record as they were; a submission
\* adds one record and changes none, a list changes nothing.
C28_OnlyModerationMutates ==
    [][/\ \A id \in DOMAIN store :
            /\ id \in DOMAIN store'
            /\ store'[id] # store[id]
                 => /\ \E p \in DOMAIN inv :
                         /\ StoreAnswered(p, "UpdateItem")
                         /\ inv[p].op.reviewId = id
                         /\ inv'[p].resp.statusCode = 200
                    /\ DOMAIN store'[id] = DOMAIN store[id] \cup ModerationFieldsSet
                    /\ \A f \in DOMAIN store[id] \ ModerationFieldsSet :
                         store'[id][f] = store[id][f]
                    /\ SubmissionFields \subseteq DOMAIN store'[id]
                    /\ store'[id].moderated_at = store'[id].updated_at
                    /\ \A other \in DOMAIN store \ {id} : store'[other] = store[other]
       /\ \A p \in DOMAIN inv :
            /\ StoreAnswered(p, "PutItem")
                 => /\ \A id \in DOMAIN store : store'[id] = store[id]
                    /\ DOMAIN store' \subseteq DOMAIN store \cup {inv[p].op.item.review_id}
            /\ StoreAnswered(p, "Query") => store' = store
            /\ ~(inv[p].pc = "store" /\ inv'[p].pc # "store") => store' = store]_vars

\* the second record has been moderated twice, the first is as submitted
C28_Witness ==
    \E p \in Procs :
        /\ DOMAIN store = {1, 2}
        /\ inv[p].pc = "done"
        /\ inv[p].event.path = "/reviews/{reviewId}/moderate"
        /\ inv[p].event.reviewId = 2
        /\ inv[p].resp.statusCode = 200
        /\ inv[p].replaced = "approved"
        /\ store[2].status = "rejected"
        /\ store[1].status = "pending"
        /\ "moderated_at" \notin DOMAIN store[1]

\* C29: the status of every record is pending, approved or rejected, and a
\* record whose status is no longer pending never becomes pending again,
\* whatever is submitted, listed or moderated.
C29_StatusNeverBackToPending ==
    /\ [](\A id \in DOMAIN store : store[id].status \in {"pending", "approved", "rejected"})
    /\ [][\A id \in DOMAIN store :
            /\ id \in DOMAIN store'
            /\ store[id].status # "pending" => store'[id].status # "pending"]_vars

\* a moderation that asks for pending on an approved record has been refused
C29_Witness ==
    \E p \in Procs :
        /\ inv[p].pc = "done"
        /\ inv[p].event.method = "POST"
        /\ inv[p].event.path = "/reviews/{reviewId}/moderate"
        /\ WordOf(inv[p].event.body.fields.decision.s) = "pending"
        /\ inv[p].event.reviewId \in DOMAIN store
        /\ store[inv[p].event.reviewId].status = "approved"
        /\ CodeOf(inv[p].resp) = "invalid_decision"

(***************************************************************************)
(* Concurrent invocations of the booking handler: bookings of one slot and *)
(* availability requests, while the clock moves towards the slot           *)
(***************************************************************************)
MaxBookings == 2

\* a valid booking of GoodSlot
BookingEvent == [BaseEvent EXCEPT !.path = "/booking", !.body = JsonBody(BookingBase)]

\* GET /availability?days=2
AvailabilityEvent ==
    [BaseEvent EXCEPT !.method = "GET", !.path = "/availability",
                      !.query = [NoQuery EXCEPT !.days = [k |-> "num", n |-> 2]]]

BookInit ==
    /\ env = [handler |-> "booking", allowedOrigins |-> <<AltOrigin, DefaultOrigin>>,
              table |-> "", creds |-> TRUE]
    /\ cfg = DefaultConfig
    /\ now = HandlerNow
    /\ store = <<>>
    /\ uuids = 0
    /\ inv = [p \in ConcProcs |-> Idle]
    /\ slots = <<>>
    /\ genArgs = NoCall
    /\ checked = Undefined
    /\ verdict = "unset"

\* a quarter of an hour passes
QuarterPasses ==
    /\ now.min < HandlerNow.min + 15 * MaxTicks
    /\ now' = PlusMinutes(now, 15)
    /\ UNCHANGED <<env, store, uuids, inv, cfg, slots, genArgs, checked, verdict>>

BookNext ==
    \/ \E p \in ConcProcs :
        \/ \E event \in {BookingEvent, AvailabilityEvent} : InvokeUpTo(p, event, MaxBookings)
        \/ EmailDelivered(p)
        \/ EmailFault(p)
        \/ Return(p)
    \/ QuarterPasses

BookSpec == BookInit /\ [][BookNext]_vars

\* GoodSlot is still outside the minimum lead time
StillBookable == ~Before(GoodSlot, PlusMinutes(now, cfg.minLead))

\* the list holds the slot that starts at GoodSlot
Offers(list) ==
    \E k \in 1 .. Len(list) :
        /\ list[k].slotStart = toIsoUtc(GoodSlot)
        /\ list[k].slotEnd = toIsoUtc(PlusMinutes(GoodSlot, cfg.slotDuration))

\* the invocation is a booking whose input passed validation
Booked(i) ==
    i.pc # "idle" /\ i.event = BookingEvent /\ Has(i.trace, "validation_passed")

\* C30: bookings reserve nothing.  Two bookings of one valid slot, one after
\* the other or interleaved, both end in 200 success with their own
\* bookingIds; a step of one invocation leaves the other as it is; and as
\* long as the slot is outside the minimum lead time a booking of it passes
\* validation and GET /availability offers it, however many bookings of it
\* there have been.
C30_BookingsReserveNothing ==
    /\ [](/\ \A p \in DOMAIN inv :
               (Booked(inv[p]) /\ inv[p].pc = "done")
               => /\ inv[p].resp.statusCode = 200
                  /\ inv[p].resp.body.status = "success"
                  /\ inv[p].resp.body.slotStart = toIsoUtc(GoodSlot)
                  /\ inv[p].resp.body.notificationSent = Has(inv[p].trace, "email_sent")
          /\ \A p, q \in DOMAIN inv :
               (p # q /\ Booked(inv[p]) /\ inv[p].pc = "done"
                      /\ Booked(inv[q]) /\ inv[q].pc = "done")
               => inv[p].resp.body.bookingId # inv[q].resp.body.bookingId)
    /\ [][\A p \in DOMAIN inv :
            /\ inv'[p] # inv[p] => \A q \in DOMAIN inv \ {p} : inv'[q] = inv[q]
            /\ (inv[p].pc = "idle" /\ inv'[p].pc # "idle" /\ inv'[p].event = BookingEvent)
                 => (Booked(inv'[p]) <=> StillBookable)
            /\ (inv[p].pc = "idle" /\ inv'[p].pc # "idle" /\ inv'[p].event = AvailabilityEvent)
                 => /\ inv'[p].resp.statusCode = 200
                    /\ Offers(inv'[p].resp.body.slots) <=> StillBookable]_vars

\* both bookings of the slot are confirmed, one of them without its email, and
\* the slot is offered to the request made after them
C30_Witness ==
    \E p, q \in ConcProcs :
        /\ p # q
        /\ uuids = 2
        /\ inv[p].pc = "done" /\ inv[p].event = AvailabilityEvent
        /\ Offers(inv[p].resp.body.slots)
        /\ inv[q].pc = "done" /\ Booked(inv[q])
        /\ inv[q].resp.body.bookingId = 2
        /\ ~inv[q].resp.body.notificationSent

====
